---- MODULE Spec2Model ----
(***************************************************************************)
(* Audio capture / mixing / chunking engine of on-prem-ai-note-taker.      *)
(*                                                                         *)
(* The repository holds two copies of the chunker:                         *)
(*   build = "app"    src-tauri/src/plugins/audio_capture.rs (the module   *)
(*                    main.rs registers; the scheduler keeps its own index *)
(*                    and the JoinHandle of the task is dropped)           *)
(*   build = "plugin" src-tauri/plugins/audio_capture/lib.rs (keeps the    *)
(*                    JoinHandle in chunk_task and aborts it in stop_all;  *)
(*                    the index comes from the directory listing)          *)
(* Both drive the same MultiSourceAudioCapture (multi_audio.rs), modelled  *)
(* as compiled for target_os = "linux".                                    *)
(*                                                                         *)
(* Samples are f32 in the code.  The model numbers the samples a source    *)
(* delivers 1, 2, 3, ... and gives the k-th sample of a source an even     *)
(* integer value that is unique over all sources (SampleOf), so that the   *)
(* mixer's division by one or two sources is exact, as it is in f32, and   *)
(* every sample in a buffer, a chunk or a file names its source position.  *)
(***************************************************************************)
EXTENDS Integers, Sequences, FiniteSets, TLC

\* ---------------------------------------------------------------- bounds
\* AudioChunker::new(sample_rate, chunk_secs): main.rs passes 48000 and 10.
\* The model runs scaled-down rates: LowRate where sessions restart, and
\* HighRate, where one poll takes up to two samples and a chunk leaves a
\* leftover, where one session runs longer.  chunk_secs is 1..MaxChunkSecs.
LowRate == 5
HighRate == 11
MaxChunkSecs == 1
\* Sessions (uuids) created in one run.
MaxSessions == 2
\* Samples one hardware callback delivers.
BatchLen == 3
\* Hardware callbacks in one run (all sources together), and samples the
\* scheduler tasks poll in one run (all tasks together): short runs with
\* restarts, long runs of one session.
ShortCallbacks == 2
ShortPolled == 6
LongCallbacks == 4
LongPolled == 23
\* Append tasks spawned by the system-audio callback and not yet run.
MaxPending == 2
\* Encoder writes that fail in one run.
MaxWriteFail == 1
\* Longest buffer and largest max_samples of a direct call of the capture API.
MaxLen == 2
\* Hardware callbacks and samples polled in a run of commands (starts, failed
\* starts and stops), too few for a chunk.
CmdCallbacks == 1
CmdPolled == 2
\* Buffers (re)created by the direct start_multi_recording commands of a run.
MaxOpened == 3

\* ------------------------------------------------------------- constants
MicId == "mic_0"
SysId == "system_audio_pulse"
SourceIds == {MicId, SysId}
UnknownId == "mic_9"
\* Option::None of an integer-valued option (a session id, max_samples, a task).
None == -1
\* Option::None of kind.
NoKind == "none"
\* The audio_buffers mutex held by nobody.
Free == 0
\* A lock held by the command that runs start_multi_recording.
Command == -2

VARIABLES
    build,            \* which copy of the chunker runs
    host,             \* the device kinds the audio host can enumerate
    \* AudioChunker
    sample_rate, chunk_secs,
    session_id, session_dir, active_sources, kind, chunk_task, chunk_index,
    \* MultiSourceAudioCapture
    sources, audio_buffers, is_recording, active_streams,
    buffers_lock,     \* holder of the audio_buffers mutex (Free or a task)
    \* leaked cpal streams, the hardware, the spawned append tasks
    streams, delivered, pending,
    \* scheduler tasks, the recordings directories, the emitted events
    tasks, dirs, events,
    \* history
    next_uuid,        \* sessions created so far
    stopped,          \* sessions whose stop_all has returned
    replaced,         \* sessions after which a later start returned Ok
    late,             \* what tasks did after the stop_all of their session
    polled, handed,   \* per task: samples polled, chunks given to encoder
    drained,          \* per source: all get_source_audio results, in order
    opened,           \* per source: how often its buffer was (re)created
    last_mix,         \* the last non-empty mixed poll
    write_failures,
    \* AudioCapture (audio.rs) and the commands that call the capture API directly
    audio_data,
    last_call,        \* the last direct call: its arguments and its result
    \* Coordinator (coordinator.rs) and ac_stop_and_finalize
    final_wav,        \* per session directory: its final.wav, when there is one
    finalizing,       \* ac_stop_and_finalize in progress: its position and dir
    last_finalize,    \* the last ac_stop_and_finalize: what it found and returned
    separate,         \* per session directory: its chunk_<n>_mic / _sys files
    transcript,       \* per session directory: the lines of transcript.jsonl
    \* AudioCapture (audio.rs): its device list, flag and leaked streams
    active_devices, capture_is_recording, capture_streams,
    capture_delivered, \* samples its data callbacks were handed so far
    capture_starting, \* a start_capture between its awaits
    errored,          \* ids whose stream has called its error callback
    \* the audio host: the input devices it enumerates now, in order, and
    \* every (id, device) pair a discovery returned or an open resolved
    input_devices, named,
    \* the locks of MultiSourceAudioCapture taken one at a time
    streams_lock,     \* holder of the active_streams mutex
    starting,         \* a start_session inside start_multi_recording
    mic_callback,     \* the microphone's callback thread
    \* the encoder: the last sample given to it and what it wrote
    encoded

chunker == <<sample_rate, chunk_secs, session_id, session_dir, active_sources, kind,
             chunk_task, chunk_index>>
capture == <<sources, audio_buffers, is_recording, active_streams>>
hardware == <<streams, delivered, pending>>
history == <<next_uuid, stopped, replaced, late, polled, handed, drained,
             opened, last_mix, write_failures>>
direct == <<audio_data, last_call>>
finalizer == <<final_wav, finalizing, last_finalize, separate, transcript>>
audio_capture == <<active_devices, capture_is_recording, capture_streams,
                   capture_delivered, capture_starting>>
devices == <<input_devices, named>>
locks == <<streams_lock, starting, mic_callback>>
outside == <<audio_capture, errored, devices, locks, encoded>>
vars == <<build, host, chunker, capture, buffers_lock, hardware, tasks, dirs,
          events, history, direct, finalizer, outside>>

\* ---------------------------------------------------------------- helpers
Min(a, b) == IF a <= b THEN a ELSE b

Take(s, n) == SubSeq(s, 1, n)

Drop(s, n) == SubSeq(s, n + 1, Len(s))

SeqToSet(s) == {s[i] : i \in 1..Len(s)}

RECURSIVE Flatten(_)
Flatten(ss) == IF ss = <<>> THEN <<>> ELSE Head(ss) \o Flatten(Tail(ss))

\* More than the samples a source delivers in any run.
MaxDeliver == (ShortCallbacks + LongCallbacks) * BatchLen

\* The value of the k-th sample source s delivers.
SampleOf(s, k) == 2 * k + (IF s = SysId THEN 2 * (MaxDeliver + 2) ELSE 0)

\* Samples first..first+n-1 of source s, as one callback delivers them.
Batch(s, first, n) == [i \in 1..n |-> SampleOf(s, first + i - 1)]

SessionIds == 1..MaxSessions

\* -------------------------------------------------- MultiSourceAudioCapture
\* A drain that takes from the back of the buffer, not the front.
get_source_audio_back(buffers, source_id, max_samples) ==
    IF source_id \in DOMAIN buffers
    THEN LET buffer == buffers[source_id]
             samples_to_take == IF max_samples = None THEN Len(buffer)
                                ELSE Min(max_samples, Len(buffer))
         IN [result |-> Drop(buffer, Len(buffer) - samples_to_take),
             buffers |-> [buffers EXCEPT
                             ![source_id] = Take(buffer, Len(buffer) - samples_to_take)]]
    ELSE [result |-> <<>>, buffers |-> buffers]

\* A mixer that adds the samples without dividing by the number of sources.
RECURSIVE mix_sum_undivided(_, _, _, _)
mix_sum_undivided(buffers, active, upto, i) ==
    IF upto = 0 THEN 0
    ELSE mix_sum_undivided(buffers, active, upto - 1, i)
         + (IF active[upto] \in DOMAIN buffers THEN buffers[active[upto]][i] ELSE 0)

\* get_source_audio: drain up to max_samples (all when None) from the front
\* of the buffer of source_id; an id without a buffer gives an empty result.
get_source_audio(buffers, source_id, max_samples) ==
    IF source_id \in DOMAIN buffers
    THEN LET buffer == buffers[source_id]
             samples_to_take == IF max_samples = None THEN Len(buffer)
                                ELSE Min(max_samples, Len(buffer))
         IN [result |-> Take(buffer, samples_to_take),
             buffers |-> [buffers EXCEPT ![source_id] = Drop(buffer, samples_to_take)]]
    ELSE [result |-> <<>>, buffers |-> buffers]

\* The shortest buffer among the active streams that have one (0 when none).
min_length(buffers, active) ==
    LET lens == {Len(buffers[active[i]]) :
                    i \in {j \in 1..Len(active) : active[j] \in DOMAIN buffers}}
    IN IF lens = {} THEN 0 ELSE CHOOSE l \in lens : \A m \in lens : l <= m

\* mixed[i] += sample / num_sources over the active streams, up to position i.
RECURSIVE mix_sum(_, _, _, _)
mix_sum(buffers, active, upto, i) ==
    IF upto = 0 THEN 0
    ELSE mix_sum(buffers, active, upto - 1, i)
         + (IF active[upto] \in DOMAIN buffers
            THEN buffers[active[upto]][i] \div Len(active)
            ELSE 0)

\* mix_audio_sources: reads the buffers, never writes them.
mix_audio_sources(buffers, active, max_samples) ==
    IF active = <<>> THEN <<>>
    ELSE LET samples_to_mix == IF max_samples = None THEN min_length(buffers, active)
                               ELSE Min(max_samples, min_length(buffers, active))
         IN [i \in 1..samples_to_mix |-> mix_sum(buffers, active, Len(active), i)]

\* get_mixed_audio: config.mix_output is true in AudioChunker::new.
mix_output == TRUE

get_mixed_audio(buffers, active, max_samples) ==
    IF mix_output THEN mix_audio_sources(buffers, active, max_samples) ELSE <<>>

\* A stop_recording that clears the flag and leaves active_streams as it is.
stop_recording_keeps_streams(rec, active) == active

\* stop_recording: nothing when not recording, else clear flag and streams.
stop_recording_active(rec, active) == IF rec THEN <<>> ELSE active

\* ------------------------------------------------------------ AudioChunker
target_samples == sample_rate * chunk_secs

poll_max == target_samples \div 5

\* A scheduler task: where it is in its loop, what it captured (src_ids, kind),
\* its locals, whether its JoinHandle was aborted, and, for the history, how
\* many samples its first source had been delivered when the task was spawned.
NoTask == [pc |-> "none", src_ids |-> <<>>, kind |-> NoKind, accumulated |-> <<>>,
           index |-> 0, chunk |-> <<>>, aborted |-> FALSE, base |-> 0]

\* The ids discover_sources returns: system devices first, then microphones.
discover_sources == (IF "SystemAudio" \in host THEN <<SysId>> ELSE <<>>)
                    \o (IF "Microphone" \in host THEN <<MicId>> ELSE <<>>)

DeviceType(id) == IF id = SysId THEN "SystemAudio" ELSE "Microphone"

\* sources.iter().find(|s| s.device_type == t): the ids of that type, first only.
find_type(t) ==
    LET found == SelectSeq(discover_sources, LAMBDA id : DeviceType(id) = t)
    IN IF found = <<>> THEN <<>> ELSE <<Head(found)>>

\* The history of the last non-empty mixed poll: the number of samples returned
\* and the buffer lengths of the active streams before and after it.
NoMix == [n |-> 0, before |-> <<>>, after |-> <<>>]

\* ac_stop_and_finalize not running; no ac_stop_and_finalize has returned.
NotFinalizing == [pc |-> "idle", dir |-> None]

NoFinalize == [dir |-> None, entries |-> <<>>, io |-> "none", concat |-> "none",
               returned |-> "none"]

\* Nothing outside the chunker's sessions has happened: AudioCapture::new, no
\* stream error, no discovery, every lock free.
DeviceIds == {"input_0", "system_linux_pulse_monitor"}

NotStarting == [pc |-> "idle", ids |-> <<>>, todo |-> <<>>, kind |-> NoKind,
                outcome |-> <<>>]

\* The encoder has been given nothing.
\* No start_capture is under way.
NotCapturing == [pc |-> "idle", device |-> ""]

NotEncoded == [input |-> <<0, 0>>, output |-> <<0, 0>>, done |-> FALSE]

Untouched ==
    /\ active_devices = <<>> /\ capture_is_recording = FALSE
    /\ capture_streams = [d \in DeviceIds |-> 0]
    /\ capture_delivered = 0
    /\ capture_starting = NotCapturing
    /\ errored = {}
    /\ input_devices = <<>> /\ named = {}
    /\ streams_lock = Free /\ starting = NotStarting /\ mic_callback = "idle"

\* No direct call of the capture API yet.
NoCall == [op |-> "none", id |-> "", max |-> None, before |-> <<>>,
           active |-> <<>>, result |-> <<>>, ok |-> TRUE, error |-> ""]

\* A chunker made by AudioChunker::new(rate, secs), set_app_handle done, before
\* any command; the buffers of the capture engines are set by New or InitDirect.
Idle(rate) ==
    /\ sample_rate = rate
    /\ session_id = None /\ session_dir = None /\ active_sources = <<>>
    /\ kind = NoKind /\ chunk_task = None /\ chunk_index = 0
    /\ sources = {} /\ is_recording = FALSE
    /\ buffers_lock = Free
    /\ streams = [s \in SourceIds |-> 0]
    /\ delivered = [s \in SourceIds |-> 0]
    /\ pending = {}
    /\ tasks = [t \in SessionIds |-> NoTask]
    /\ dirs = [t \in {} |-> <<>>]
    /\ events = [t \in SessionIds |-> <<>>]
    /\ next_uuid = 0 /\ stopped = {} /\ replaced = {} /\ late = {}
    /\ polled = [t \in SessionIds |-> <<>>]
    /\ handed = [t \in SessionIds |-> <<>>]
    /\ drained = [s \in SourceIds |-> <<>>]
    /\ opened = [s \in SourceIds |-> 0]
    /\ last_mix = NoMix
    /\ last_call = NoCall
    /\ write_failures = 0
    /\ final_wav = [t \in {} |-> <<>>]
    /\ finalizing = NotFinalizing
    /\ last_finalize = NoFinalize
    /\ separate = [t \in SessionIds |-> <<>>]
    /\ transcript = [t \in SessionIds |-> <<>>]
    /\ Untouched

\* MultiSourceAudioCapture::new and AudioCapture::new: no buffer, no stream.
New(rate) ==
    /\ build \in {"app", "plugin"}
    /\ host \in SUBSET {"Microphone", "SystemAudio"}
    /\ chunk_secs \in 1..MaxChunkSecs
    /\ Idle(rate)
    /\ audio_buffers = [s \in {} |-> <<>>]
    /\ active_streams = <<>>
    /\ audio_data = <<>>
    /\ encoded = NotEncoded

Init == New(LowRate)

\* ------------------------------------------------- start_multi_recording
\* How opening one source ends: "ok"; "fail_early", an error before the
\* buffer of the source is (re)created; "fail_late", an error after it.
\* start_system_audio_capture creates the buffer before anything can fail.
OutcomesOf(id) == IF id = SysId THEN {"ok", "fail_late"}
                  ELSE {"ok", "fail_early", "fail_late"}

Outcomes(ids) ==
    {f \in [SeqToSet(ids) -> {"ok", "fail_early", "fail_late"}] :
        \A id \in SeqToSet(ids) : f[id] \in OutcomesOf(id)}

\* A loop that pushes the id onto active_streams also when the source failed.
start_source_recording_pushes_failed(st, id, out) ==
    [active |-> Append(st.active, id),
     buffers |-> IF out = "fail_early" THEN st.buffers
                 ELSE (id :> <<>>) @@ st.buffers,
     streams |-> IF out = "ok" THEN [st.streams EXCEPT ![id] = @ + 1]
                 ELSE st.streams,
     opened |-> IF out = "fail_early" THEN st.opened
                ELSE [st.opened EXCEPT ![id] = @ + 1]]

\* start_source_recording and the Ok / Err arm of the loop around it:
\* buffers.insert(id, Vec::new()), a stream that is played and leaked
\* (std::mem::forget), active_streams.push(id).
start_source_recording(st, id, out) ==
    [active |-> IF out = "ok" THEN Append(st.active, id) ELSE st.active,
     buffers |-> IF out = "fail_early" THEN st.buffers
                 ELSE (id :> <<>>) @@ st.buffers,
     streams |-> IF out = "ok" THEN [st.streams EXCEPT ![id] = @ + 1]
                 ELSE st.streams,
     opened |-> IF out = "fail_early" THEN st.opened
                ELSE [st.opened EXCEPT ![id] = @ + 1]]

RECURSIVE start_multi_recording(_, _, _)
start_multi_recording(st, ids, outcome) ==
    IF ids = <<>> THEN st
    ELSE start_multi_recording(
             start_source_recording(st, Head(ids), outcome[Head(ids)]),
             Tail(ids), outcome)

\* --------------------------------------------------------------- stop_all
\* chunk_task.take() and handle.abort(): only the plugin copy has the handle.
\* An aborted task stops at its next await that does not complete at once.
abort_chunk_task ==
    IF build = "plugin" /\ chunk_task # None
    THEN [tasks EXCEPT ![chunk_task].aborted = TRUE]
    ELSE tasks

stop_all_stopped == IF session_id # None THEN stopped \cup {session_id} ELSE stopped

stop_all ==
    /\ tasks' = abort_chunk_task
    /\ is_recording' = FALSE
    /\ active_streams' = stop_recording_active(is_recording, active_streams)
    /\ active_sources' = <<>> /\ kind' = NoKind
    /\ UNCHANGED <<sample_rate, chunk_secs>>
    /\ session_id' = None /\ session_dir' = None /\ chunk_task' = None
    /\ chunk_index' = 0
    /\ stopped' = stop_all_stopped
    /\ UNCHANGED <<build, host, sources, audio_buffers, buffers_lock, hardware,
                   dirs, events, next_uuid, replaced, late, polled, handed,
                   drained, opened, last_mix, write_failures, direct>>

\* The command ac_stop_all.  A command holds the chunker's mutex for the whole
\* call: it does not run while a start is inside start_multi_recording.
StopAll ==
    /\ starting.pc = "idle"
    /\ stop_all
    /\ UNCHANGED <<finalizer, outside>>

\* ac_get_active_session_info: the SessionInfo the command returns.
ac_get_active_session_info == [session_id |-> session_id, session_dir |-> session_dir]

\* ---------------------------------------------------------- start_session
\* A start that reports success although no source started.
started_always(active) == TRUE

\* start_multi_recording returns Ok when active_streams is not empty, and
\* start_session goes on past its `?` only then.
started(active) == active # <<>>

NewTask(ids, k) == [pc |-> "sleep", src_ids |-> ids, kind |-> k,
                    accumulated |-> <<>>, index |-> 0, chunk |-> <<>>,
                    aborted |-> FALSE, base |-> delivered[ids[1]]]

start_session(ids, k, outcome, max_sessions) ==
    LET sid == next_uuid + 1
        st == start_multi_recording(
                  [active |-> stop_recording_active(is_recording, active_streams),
                   buffers |-> audio_buffers, streams |-> streams,
                   opened |-> opened],
                  ids, outcome)
        ok == started(st.active)
    IN /\ next_uuid < max_sessions
       /\ buffers_lock = Free
       /\ next_uuid' = sid
       /\ dirs' = (sid :> [i \in {} |-> <<>>]) @@ dirs
       /\ audio_buffers' = st.buffers
       /\ streams' = st.streams
       /\ opened' = st.opened
       /\ active_streams' = st.active
       /\ is_recording' = ok
       /\ stopped' = stop_all_stopped
       /\ tasks' = IF ok THEN [abort_chunk_task EXCEPT ![sid] = NewTask(ids, k)]
                   ELSE abort_chunk_task
       /\ session_id' = IF ok THEN sid ELSE None
       /\ session_dir' = IF ok THEN sid ELSE None
       /\ active_sources' = IF ok THEN ids ELSE <<>>
       /\ kind' = IF ok THEN k ELSE NoKind
       /\ chunk_task' = IF ok /\ build = "plugin" THEN sid ELSE None
       /\ chunk_index' = 0
       /\ replaced' = IF ok THEN replaced \cup {t \in SessionIds : tasks[t].pc # "none"}
                      ELSE replaced
       /\ UNCHANGED <<outside, finalizer, build, host, sample_rate, chunk_secs, buffers_lock, delivered,
                      pending, events, late, polled, handed, drained, last_mix,
                      write_failures, direct>>

\* start_mic / start_system / start_mix: discover, pick by type, start_session.
\* Without a source of the type the command returns Err before start_session.
start(ids, k, max_sessions) ==
    /\ sources' = sources \cup SeqToSet(discover_sources)
    /\ IF ids = <<>>
       THEN UNCHANGED <<outside, finalizer, build, host, chunker, audio_buffers, is_recording,
                        active_streams, buffers_lock, hardware, tasks, dirs,
                        events, history, direct>>
       ELSE \E outcome \in Outcomes(ids) : start_session(ids, k, outcome, max_sessions)

StartMic(max_sessions) == start(find_type("Microphone"), "mic", max_sessions)

StartSystem(max_sessions) == start(find_type("SystemAudio"), "system", max_sessions)

StartMix(max_sessions) ==
    start(find_type("Microphone") \o find_type("SystemAudio"), "mix", max_sessions)

\* --------------------------------------------------------- scheduler task
\* For the history: task t did op ("drain", "write", "emit") after the stop_all
\* of its session had returned; after_restart: also after a later start had.
Late(t, ops) ==
    IF t \in stopped
    THEN {[task |-> t, op |-> op, after_restart |-> t \in replaced] : op \in ops}
    ELSE {}

RECURSIVE TotalLen(_, _)
TotalLen(f, n) == IF n = 0 THEN 0 ELSE Len(f[n]) + TotalLen(f, n - 1)

\* The task wakes from sleep(200 ms) and takes the audio_buffers lock inside
\* get_mixed_audio / get_source_audio.
TaskLock(t, max_polled) ==
    /\ tasks[t].pc = "sleep"
    /\ ~tasks[t].aborted
    /\ TotalLen(polled, MaxSessions) < max_polled
    /\ buffers_lock = Free
    /\ buffers_lock' = t
    /\ tasks' = [tasks EXCEPT ![t].pc = "locked"]
    /\ UNCHANGED <<outside, finalizer, build, host, chunker, capture, hardware, dirs, events, history,
                   direct>>

\* A scheduler that waits for more than target_samples.
chunk_ready_above(accumulated) == Len(accumulated) > target_samples

\* if accumulated.len() >= target_samples
chunk_ready(accumulated) == Len(accumulated) >= target_samples

\* A drain that hands over everything accumulated and keeps nothing.
drain_chunk_whole(accumulated) == [chunk |-> accumulated, rest |-> <<>>]

\* accumulated.drain(0..target_samples).collect(): the chunk, and what stays.
drain_chunk(accumulated) ==
    [chunk |-> Take(accumulated, target_samples),
     rest |-> Drop(accumulated, target_samples)]

\* A scheduler that polls through the mixer whatever the number of sources.
use_mixer_always(src_ids) == TRUE

\* if src_ids.len() > 1: poll the mixer, else the buffer of the one source.
use_mixer(src_ids) == Len(src_ids) > 1

\* The poll itself, the append to accumulated and the drain of one chunk.
TaskPoll(t) ==
    LET task == tasks[t]
        mixed == use_mixer(task.src_ids)
        got == get_source_audio(audio_buffers, task.src_ids[1], poll_max)
        new_samples == IF mixed
                       THEN get_mixed_audio(audio_buffers, active_streams, poll_max)
                       ELSE got.result
        accumulated == task.accumulated \o new_samples
        full == chunk_ready(accumulated)
        chunk == drain_chunk(accumulated).chunk
    IN /\ task.pc = "locked"
       \* mix_audio_sources: self.active_streams.lock().await
       /\ mixed => streams_lock = Free
       /\ buffers_lock' = Free
       /\ audio_buffers' = IF mixed THEN audio_buffers ELSE got.buffers
       /\ tasks' = [tasks EXCEPT ![t] =
             IF new_samples = <<>> THEN [task EXCEPT !.pc = "sleep"]
             ELSE IF full
             THEN [task EXCEPT !.pc = "write",
                               !.accumulated = drain_chunk(accumulated).rest,
                               !.chunk = chunk,
                               !.index = IF build = "app" THEN @ + 1 ELSE @]
             ELSE [task EXCEPT !.pc = "sleep", !.accumulated = accumulated]]
       /\ polled' = [polled EXCEPT ![t] = @ \o new_samples]
       /\ handed' = IF new_samples # <<>> /\ full
                    THEN [handed EXCEPT ![t] = Append(@, chunk)] ELSE handed
       /\ drained' = IF mixed THEN drained
                     ELSE [drained EXCEPT ![task.src_ids[1]] = @ \o got.result]
       /\ last_mix' = IF mixed /\ new_samples # <<>>
                      THEN [n |-> Len(new_samples),
                            before |-> [i \in 1..Len(active_streams) |->
                                           Len(audio_buffers[active_streams[i]])],
                            after |-> [i \in 1..Len(active_streams) |->
                                           Len(audio_buffers'[active_streams[i]])]]
                      ELSE last_mix
       /\ late' = IF new_samples # <<>> THEN late \cup Late(t, {"drain"}) ELSE late
       /\ UNCHANGED <<outside, finalizer, build, host, chunker, sources, is_recording, active_streams,
                      hardware, dirs, events, next_uuid, stopped, replaced, opened,
                      write_failures, direct>>

\* write_wav_chunk of the plugin copy: the next index is one more than the
\* largest chunk_<n>.wav the directory lists.
next_index(dir) ==
    IF DOMAIN dir = {} THEN 1
    ELSE 1 + CHOOSE n \in DOMAIN dir : \A m \in DOMAIN dir : m <= n

\* The index of the file the task writes.
path_index(t) == IF build = "app" THEN tasks[t].index ELSE next_index(dirs[t])

\* hound::WavSpec of write_wav_chunk: mono, 16-bit integer samples.
WavSpec(rate) == [channels |-> 1, sample_rate |-> rate, bits_per_sample |-> 16]

\* A chunk file: finalized with its samples, or left behind by a failed write.
File(data, complete) ==
    [data |-> data, complete |-> complete, spec |-> WavSpec(sample_rate)]

\* An event built from the session fields of the AudioChunker as they are when
\* the chunk is written.
ChunkEvent_from_chunker(t, index) ==
    [session_id |-> session_id,
     index |-> index,
     path |-> index,
     start_ms |-> IF build = "app" THEN (index - 1) * chunk_secs * 1000 ELSE 0,
     end_ms |-> index * chunk_secs * 1000,
     duration_ms |-> chunk_secs * 1000,
     kind |-> kind]

\* The ChunkEvent the task builds for index, from what it captured when it
\* was spawned (session_id_clone, kind_string).
ChunkEvent(t, index) ==
    [session_id |-> t,
     index |-> index,
     path |-> index,
     start_ms |-> IF build = "app" THEN (index - 1) * chunk_secs * 1000 ELSE 0,
     end_ms |-> index * chunk_secs * 1000,
     duration_ms |-> chunk_secs * 1000,
     kind |-> tasks[t].kind]

\* A scheduler whose task ends when a write fails.
after_write_ends_on_error(out) == IF out = "ok" THEN "sleep" ELSE "none"

\* Where the task goes after the write: back to the sleep at the top of the
\* loop, also on Err (continue in the app copy, index 0 in the plugin copy).
after_write(out) == "sleep"

\* The rest of the iteration, which runs without an await: write_wav_chunk and
\* handle.emit("audio:chunk", meta).  The write ends "ok"; "create_failed",
\* WavWriter::create fails and no file appears; or "write_failed", the file is
\* created and a sample write or finalize fails.  On Err the app copy continues
\* the loop without an event; the plugin copy emits with index 0
\* (unwrap_or_else(|_| 0)).
TaskWrite(t, out) ==
    LET task == tasks[t]
        idx == path_index(t)
        index == IF build = "app" THEN task.index
                 ELSE IF out = "ok" THEN idx ELSE 0
        emits == build = "plugin" \/ out = "ok"
    IN /\ task.pc = "write"
       /\ out # "ok" => write_failures < MaxWriteFail
       /\ write_failures' = IF out = "ok" THEN write_failures ELSE write_failures + 1
       /\ dirs' = IF out = "create_failed" THEN dirs
                  ELSE [dirs EXCEPT ![t] = (idx :> File(task.chunk, out = "ok")) @@ @]
       /\ events' = IF emits THEN [events EXCEPT ![t] = Append(@, ChunkEvent(t, index))]
                    ELSE events
       /\ tasks' = [tasks EXCEPT ![t] = [task EXCEPT !.pc = after_write(out),
                                                     !.index = index,
                                                     !.chunk = <<>>]]
       /\ late' = late \cup Late(t, (IF out = "create_failed" THEN {} ELSE {"write"})
                                    \cup (IF emits THEN {"emit"} ELSE {}))
       /\ UNCHANGED <<outside, finalizer, build, host, chunker, capture, buffers_lock, hardware,
                      next_uuid, stopped, replaced, polled, handed, drained, opened,
                      last_mix, direct>>

\* ------------------------------------------------------ hardware callbacks
\* s repeated k times.
RECURSIVE Repeat(_, _)
Repeat(s, k) == IF k = 0 THEN <<>> ELSE s \o Repeat(s, k - 1)

\* The microphone callback (the F32 arm): block_on(audio_buffers.lock()), then
\* buffer.extend_from_slice(data).  Every leaked stream of the device runs it.
MicCallback(max_callbacks) ==
    /\ streams[MicId] > 0
    /\ mic_callback = "idle"
    /\ delivered[MicId] + delivered[SysId] < max_callbacks * BatchLen
    /\ buffers_lock = Free
    /\ delivered' = [delivered EXCEPT ![MicId] = @ + BatchLen]
    /\ audio_buffers' = IF MicId \in DOMAIN audio_buffers
                        THEN [audio_buffers EXCEPT ![MicId] =
                                 @ \o Repeat(Batch(MicId, delivered[MicId] + 1, BatchLen),
                                             streams[MicId])]
                        ELSE audio_buffers
    /\ UNCHANGED <<outside, finalizer, build, host, chunker, sources, is_recording, active_streams,
                   buffers_lock, streams, pending, tasks, dirs, events, history,
                   direct>>

\* The system-audio callback (start_pulse_monitor): copies the data and spawns
\* one task per delivery with tokio::spawn; it never touches the lock itself.
\* (tokio::spawn needs the calling thread to be inside a runtime context; the
\* model takes the callback thread to be in one, as the code supposes.)
SysCallback(max_callbacks) ==
    /\ streams[SysId] > 0
    /\ delivered[MicId] + delivered[SysId] < max_callbacks * BatchLen
    /\ Cardinality(pending) + streams[SysId] <= MaxPending
    /\ delivered' = [delivered EXCEPT ![SysId] = @ + BatchLen]
    /\ pending' = pending \cup {[stream |-> i, first |-> delivered[SysId] + 1] :
                                  i \in 1..streams[SysId]}
    /\ UNCHANGED <<outside, finalizer, build, host, chunker, capture, buffers_lock, streams, tasks, dirs,
                   events, history, direct>>

\* One spawned task runs, in any order: try_lock, and on success append; when
\* the lock is held the data is dropped.
SysAppend(p) ==
    /\ p \in pending
    /\ pending' = pending \ {p}
    /\ audio_buffers' = IF buffers_lock = Free /\ SysId \in DOMAIN audio_buffers
                        THEN [audio_buffers EXCEPT ![SysId] =
                                 @ \o Batch(SysId, p.first, BatchLen)]
                        ELSE audio_buffers
    /\ UNCHANGED <<outside, finalizer, build, host, chunker, sources, is_recording, active_streams,
                   buffers_lock, streams, delivered, tasks, dirs, events, history,
                   direct>>

\* ------------------------------------------------------------------- Spec
WriteOutcomes == {"ok", "create_failed", "write_failed"}

\* Up to MaxSessions sessions, short runs.
Next ==
    \/ StartMic(MaxSessions)
    \/ StartSystem(MaxSessions)
    \/ StartMix(MaxSessions)
    \/ StopAll
    \/ \E t \in SessionIds : TaskLock(t, ShortPolled)
    \/ \E t \in SessionIds : TaskPoll(t)
    \/ \E t \in SessionIds, out \in WriteOutcomes : TaskWrite(t, out)
    \/ MicCallback(ShortCallbacks)
    \/ SysCallback(ShortCallbacks)
    \/ \E p \in pending : SysAppend(p)

Spec == Init /\ [][Next]_vars

\* One session (started, run, stopped) at HighRate, a long run.
InitSession == New(HighRate)

NextSession ==
    \/ StartMic(1)
    \/ StartSystem(1)
    \/ StartMix(1)
    \/ StopAll
    \/ TaskLock(1, LongPolled)
    \/ TaskPoll(1)
    \/ \E out \in WriteOutcomes : TaskWrite(1, out)
    \/ MicCallback(LongCallbacks)
    \/ SysCallback(LongCallbacks)
    \/ \E p \in pending : SysAppend(p)

SpecSession == InitSession /\ [][NextSession]_vars

\* Commands in any order (starts that succeed or fail, stops), up to
\* MaxSessions sessions, with the scheduler tasks running and the microphone
\* delivering.  The system-audio stream stays silent here: what it delivers
\* is part of Spec and SpecSession.
NextCommands ==
    \/ StartMic(MaxSessions)
    \/ StartSystem(MaxSessions)
    \/ StartMix(MaxSessions)
    \/ StopAll
    \/ \E t \in SessionIds : TaskLock(t, CmdPolled)
    \/ \E t \in SessionIds : TaskPoll(t)
    \/ MicCallback(CmdCallbacks)

SpecCommands == Init /\ [][NextCommands]_vars

\* Microphone sessions that are started, stopped and replaced while their
\* tasks write chunks.
InitRestarts == New(LowRate) /\ host = {"Microphone"}

NextRestarts ==
    \/ StartMic(MaxSessions)
    \/ StopAll
    \/ \E t \in SessionIds : TaskLock(t, ShortPolled)
    \/ \E t \in SessionIds : TaskPoll(t)
    \/ \E t \in SessionIds : TaskWrite(t, "ok")
    \/ MicCallback(ShortCallbacks)

SpecRestarts == InitRestarts /\ [][NextRestarts]_vars

\* One microphone session that is never stopped, for every sample rate from 1
\* to LowRate (target_samples from 1 up): the microphone delivers more than a
\* chunk, every write succeeds, and the task, the callback thread and the
\* encoder all get to run.  The callback waits for the audio_buffers lock
\* while the task holds it; tokio's mutex serves its waiters in order, so a
\* callback that is due again and again gets the lock (strong fairness).
InitProgress == \E rate \in 1..LowRate : New(rate) /\ host = {"Microphone"}

NextProgress ==
    \/ StartMic(1)
    \/ TaskLock(1, ShortPolled)
    \/ TaskPoll(1)
    \/ TaskWrite(1, "ok")
    \/ MicCallback(ShortCallbacks)

SpecProgress ==
    /\ InitProgress /\ [][NextProgress]_vars
    /\ WF_vars(TaskLock(1, ShortPolled))
    /\ WF_vars(TaskPoll(1))
    /\ WF_vars(TaskWrite(1, "ok"))
    /\ SF_vars(MicCallback(ShortCallbacks))

\* ---------------------------------------------------- direct capture calls
\* main.rs also registers commands that call a capture engine directly:
\* get_source_audio_data, get_mixed_audio_data (MultiSourceAudioCapture) and
\* get_audio_data_chunk (AudioCapture, audio.rs).  They are run here on engines
\* whose buffers hold any samples up to MaxLen.
DirectValues == {-4, 6}

RECURSIVE SeqsUpTo(_, _)
SeqsUpTo(S, n) ==
    IF n = 0 THEN {<<>>}
    ELSE LET shorter == SeqsUpTo(S, n - 1)
         IN shorter \cup {Append(q, v) : q \in {r \in shorter : Len(r) = n - 1}, v \in S}

DirectBuffers ==
    UNION {[D -> SeqsUpTo(DirectValues, MaxLen)] : D \in SUBSET SourceIds}

\* active_streams holds ids whose start returned Ok, each with a buffer.
DirectActive(buffers) ==
    {<<>>} \cup {<<a>> : a \in DOMAIN buffers}
           \cup {q \in (DOMAIN buffers) \X (DOMAIN buffers) : q[1] # q[2]}

DirectMax == {None} \cup 0..(MaxLen + 1)

InitDirect ==
    /\ build = "app" /\ host = {} /\ chunk_secs = 1
    /\ Idle(LowRate)
    /\ audio_buffers \in DirectBuffers
    /\ active_streams \in DirectActive(audio_buffers)
    /\ audio_data \in SeqsUpTo(DirectValues, MaxLen)
    /\ encoded = NotEncoded

\* AudioCapture::get_audio_data_chunk: drain min(max_samples, len) from the front.
get_audio_data_chunk(buffer, max_samples) ==
    LET chunk_size == Min(max_samples, Len(buffer))
    IN [ok |-> TRUE, result |-> Take(buffer, chunk_size),
        buffer |-> Drop(buffer, chunk_size)]

GetSourceAudioData(source_id, max_samples) ==
    LET got == get_source_audio(audio_buffers, source_id, max_samples)
    IN /\ buffers_lock = Free
       /\ audio_buffers' = got.buffers
       /\ last_call' = [op |-> "source", id |-> source_id, max |-> max_samples,
                        before |-> audio_buffers, active |-> active_streams,
                        result |-> got.result, ok |-> TRUE, error |-> ""]
       /\ UNCHANGED <<outside, finalizer, build, host, chunker, sources, is_recording, active_streams,
                      buffers_lock, hardware, tasks, dirs, events, history,
                      audio_data>>

GetMixedAudioData(max_samples) ==
    /\ buffers_lock = Free
    /\ last_call' = [op |-> "mix", id |-> "", max |-> max_samples,
                     before |-> audio_buffers, active |-> active_streams,
                     result |-> get_mixed_audio(audio_buffers, active_streams,
                                                max_samples),
                     ok |-> TRUE, error |-> ""]
    /\ UNCHANGED <<outside, finalizer, build, host, chunker, capture, buffers_lock, hardware, tasks,
                   dirs, events, history, audio_data>>

GetAudioDataChunk(max_samples) ==
    LET got == get_audio_data_chunk(audio_data, max_samples)
    IN /\ audio_data' = got.buffer
       /\ last_call' = [op |-> "chunk", id |-> "", max |-> max_samples,
                        before |-> audio_data, active |-> <<>>,
                        result |-> got.result, ok |-> got.ok, error |-> ""]
       /\ UNCHANGED <<outside, finalizer, build, host, chunker, capture, buffers_lock, hardware, tasks,
                      dirs, events, history>>

NextDirect ==
    \/ \E id \in SourceIds \cup {UnknownId}, max \in DirectMax :
           GetSourceAudioData(id, max)
    \/ \E max \in DirectMax : GetMixedAudioData(max)
    \/ \E max \in 0..(MaxLen + 1) : GetAudioDataChunk(max)

SpecDirect == InitDirect /\ [][NextDirect]_vars

\* ------------------------------------------------- the engine of main.rs
\* main.rs manages a MultiSourceAudioCapture of its own and registers the
\* commands discover_audio_sources, start_multi_recording and
\* stop_multi_recording, which call it directly.  Each holds the engine's
\* mutex for the whole call.
DiscoverAudioSources ==
    /\ sources' = sources \cup SeqToSet(discover_sources)
    /\ sources' # sources
    /\ UNCHANGED <<build, host, chunker, audio_buffers, is_recording,
                   active_streams, buffers_lock, hardware, tasks, dirs, events,
                   history, direct, finalizer, outside>>

\* The source_ids a caller passes: any ids, also unknown and repeated ones.
EngineIds == {<<>>, <<MicId>>, <<SysId>>, <<MicId, SysId>>, <<UnknownId>>,
              <<MicId, MicId>>}

\* A start that does not look at the flag.
already_recording_unchecked(rec) == FALSE

\* if self.is_recording.load(..) { return Err("Already recording") }
already_recording(rec) == rec

\* start_multi_recording(source_ids): Err when already recording; else one
\* start_source_recording for every id the sources cache knows
\* (sources.get(&source_id)), Ok when active_streams is not empty.
StartMultiRecording(ids, outcome) ==
    LET known == SelectSeq(ids, LAMBDA id : id \in sources)
        st == start_multi_recording(
                  [active |-> active_streams, buffers |-> audio_buffers,
                   streams |-> streams, opened |-> opened],
                  known, outcome)
        ok == started(st.active)
    IN /\ buffers_lock = Free
       /\ IF already_recording(is_recording)
          THEN /\ last_call' = [NoCall EXCEPT !.op = "start", !.ok = FALSE,
                                              !.error = "Already recording",
                                              !.before = audio_buffers,
                                              !.active = active_streams]
               /\ UNCHANGED <<capture, streams, opened>>
          ELSE /\ opened[MicId] + opened[SysId] < MaxOpened
               /\ audio_buffers' = st.buffers
               /\ streams' = st.streams
               /\ opened' = st.opened
               /\ active_streams' = st.active
               /\ is_recording' = ok
               /\ last_call' = [NoCall EXCEPT
                                  !.op = "start", !.ok = ok,
                                  !.error = IF ok THEN ""
                                            ELSE "No sources started successfully",
                                  !.before = audio_buffers,
                                  !.active = active_streams]
               /\ UNCHANGED sources
       /\ UNCHANGED <<build, host, chunker, buffers_lock, delivered, pending, tasks,
                      dirs, events, next_uuid, stopped, replaced, late, polled,
                      handed, drained, last_mix, write_failures, audio_data,
                      finalizer, outside>>

\* stop_multi_recording: stop_recording.
StopMultiRecording ==
    /\ active_streams' = stop_recording_active(is_recording, active_streams)
    /\ is_recording' = FALSE
    /\ last_call' = [NoCall EXCEPT !.op = "stop", !.before = audio_buffers,
                                   !.active = active_streams]
    /\ UNCHANGED <<build, host, chunker, sources, audio_buffers, buffers_lock,
                   hardware, tasks, dirs, events, history, audio_data, finalizer,
                   outside>>

NextEngine ==
    \/ DiscoverAudioSources
    \/ \E ids \in EngineIds :
           \E outcome \in Outcomes(SelectSeq(ids, LAMBDA id : id \in sources)) :
               StartMultiRecording(ids, outcome)
    \/ StopMultiRecording
    \/ MicCallback(CmdCallbacks)

SpecEngine == Init /\ [][NextEngine]_vars

\* ------------------------------------------------------------- Coordinator
\* format!("chunk_{:04}.wav", index): the decimal digits of index, padded with
\* zeros to at least NameWidth digits.  The model keeps the digits as the name
\* ("chunk_" and ".wav" are the same in every name, and '.' sorts before every
\* digit, so a name that is a prefix of another sorts first either way).
NameWidth == 4

RECURSIVE Digits(_)
Digits(n) == IF n < 10 THEN <<n>> ELSE Append(Digits(n \div 10), n % 10)

RECURSIVE Pad(_, _)
Pad(digits, width) == IF Len(digits) >= width THEN digits
                      ELSE Pad(<<0>> \o digits, width)

chunk_name(index) == Pad(Digits(index), NameWidth)

\* The order of entries.sort(): paths compare by the bytes of the file name.
RECURSIVE name_less(_, _)
name_less(a, b) ==
    IF a = <<>> THEN b # <<>>
    ELSE IF b = <<>> THEN FALSE
    ELSE IF Head(a) # Head(b) THEN Head(a) < Head(b)
    ELSE name_less(Tail(a), Tail(b))

\* The chunk_*.wav entries of a directory after entries.sort(), as indices.
RECURSIVE sort_entries(_)
sort_entries(indices) ==
    IF indices = {} THEN <<>>
    ELSE LET first == CHOOSE i \in indices :
                          \A j \in indices \ {i} :
                              name_less(chunk_name(i), chunk_name(j))
         IN <<first>> \o sort_entries(indices \ {first})

\* How the file operations of concat_wavs_in_dir end: all succeed; opening or
\* reading a chunk fails; WavWriter::create fails; a write or finalize fails.
FinalizeOutcomes == {"ok", "open_failed", "create_failed", "write_failed"}

\* A concat that goes on with an empty list of entries and writes an empty file.
concat_wavs_in_dir_unchecked(dir, io) ==
    LET entries == sort_entries(DOMAIN dir)
        spec == IF entries = <<>> THEN WavSpec(sample_rate) ELSE dir[entries[1]].spec
        all_samples == Flatten([k \in 1..Len(entries) |-> dir[entries[k]].data])
    IN IF io = "open_failed" \/ io = "create_failed"
       THEN [result |-> "io error", created |-> FALSE, out |-> <<>>]
       ELSE [result |-> IF io = "ok" THEN "ok" ELSE "io error", created |-> TRUE,
             out |-> [data |-> all_samples, complete |-> io = "ok", spec |-> spec]]

\* concat_wavs_in_dir: list and sort the chunk files, fail with "no chunks" on
\* none; read every file, keeping the spec of the first; write all samples
\* into out with that spec.
concat_wavs_in_dir(dir, io) ==
    LET entries == sort_entries(DOMAIN dir)
        spec == dir[entries[1]].spec
        all_samples == Flatten([k \in 1..Len(entries) |-> dir[entries[k]].data])
    IN IF entries = <<>>
       THEN [result |-> "no chunks", created |-> FALSE, out |-> <<>>]
       ELSE IF io = "open_failed" \/ io = "create_failed"
       THEN [result |-> "io error", created |-> FALSE, out |-> <<>>]
       ELSE [result |-> IF io = "ok" THEN "ok" ELSE "io error", created |-> TRUE,
             out |-> [data |-> all_samples, complete |-> io = "ok", spec |-> spec]]

\* The bytes that end a chunk file's name after the digits of its index, in
\* the order of the digits 0..9: '.' (of ".wav") sorts before every digit,
\* '_' (of "_mic.wav" and "_sys.wav") after every digit, 'm' before 's'.
Dot == -1
Underscore == 10
SourceTags == {"mic", "sys"}
tag_code(tag) == IF tag = "mic" THEN 11 ELSE 12

\* The entries of a session directory that pass the filter of
\* concat_wavs_in_dir (extension wav, file name starts with "chunk_"), with
\* their file names: chunk_<index>.wav of dir and the per-source files
\* chunk_<index>_mic.wav / chunk_<index>_sys.wav of sep.  final.wav,
\* transcript.jsonl and live.txt do not start with "chunk_".
wav_entries(dir, sep) ==
    {[name |-> chunk_name(i) \o <<Dot>>, file |-> dir[i]] : i \in DOMAIN dir}
    \cup {[name |-> chunk_name(k[1]) \o <<Underscore, tag_code(k[2])>>,
           file |-> sep[k]] : k \in DOMAIN sep}

\* entries.sort() on those entries.
RECURSIVE sort_paths(_)
sort_paths(entries) ==
    IF entries = {} THEN <<>>
    ELSE LET first == CHOOSE e \in entries :
                          \A f \in entries \ {e} : name_less(e.name, f.name)
         IN <<first>> \o sort_paths(entries \ {first})

\* concat_wavs_in_dir on a directory that also holds per-source files: they
\* pass the filter, are sorted among the chunk files and read like them.
concat_wavs_in_dir_all(dir, sep, io) ==
    LET entries == sort_paths(wav_entries(dir, sep))
        spec == entries[1].file.spec
        all_samples == Flatten([k \in 1..Len(entries) |-> entries[k].file.data])
    IN IF DOMAIN sep = {} THEN concat_wavs_in_dir(dir, io)
       ELSE IF io = "open_failed" \/ io = "create_failed"
       THEN [result |-> "io error", created |-> FALSE, out |-> <<>>]
       ELSE [result |-> IF io = "ok" THEN "ok" ELSE "io error", created |-> TRUE,
             out |-> [data |-> all_samples, complete |-> io = "ok", spec |-> spec]]

\* Coordinator::post_process: concat into <dir>/final.wav; on Err it prints and
\* returns.  It returns nothing to its caller.
post_process(dir, io) ==
    LET done == concat_wavs_in_dir_all(dirs[dir], separate[dir], io)
    IN /\ final_wav' = IF done.created THEN (dir :> done.out) @@ final_wav
                       ELSE final_wav
       /\ last_finalize' = [dir |-> dir, entries |-> dirs[dir], io |-> io,
                            concat |-> done.result, returned |-> "ok"]

\* ac_stop_and_finalize (registered by main.rs, in the app copy only) takes
\* the chunker lock twice and the coordinator lock once:
\* first it reads session_dir,
AcStopAndFinalizeGrab ==
    /\ build = "app"
    /\ finalizing.pc = "idle"
    /\ finalizing' = [pc |-> "stop", dir |-> session_dir]
    /\ UNCHANGED <<build, host, chunker, capture, buffers_lock, hardware, tasks,
                   dirs, events, history, direct, final_wav, last_finalize,
                   separate, transcript, outside>>

\* then it calls stop_all,
AcStopAndFinalizeStop ==
    /\ finalizing.pc = "stop"
    /\ stop_all
    /\ finalizing' = [finalizing EXCEPT !.pc = "post"]
    /\ UNCHANGED <<final_wav, last_finalize, separate, transcript, outside>>

\* then, when there was a session_dir, post_process(dir); it returns Ok(()).
AcStopAndFinalizePost(io) ==
    /\ finalizing.pc = "post"
    /\ IF finalizing.dir = None
       THEN /\ io = "ok"
            /\ last_finalize' = [NoFinalize EXCEPT !.returned = "ok"]
            /\ UNCHANGED final_wav
       ELSE post_process(finalizing.dir, io)
    /\ finalizing' = NotFinalizing
    /\ UNCHANGED <<build, host, chunker, capture, buffers_lock, hardware, tasks,
                   dirs, events, history, direct, separate, transcript, outside>>

\* The finalizer is run on session directories that hold any chunk files:
\* indices up to the first one wider than NameWidth digits, samples of either
\* rate, one or two samples each.
RECURSIVE Pow10(_)
Pow10(n) == IF n = 0 THEN 1 ELSE 10 * Pow10(n - 1)

FinalizeIndices == {1, 2, Pow10(NameWidth) - 1, Pow10(NameWidth)}

FinalizeData == {<<6>>, <<-4, 6>>}

FinalizeFiles ==
    {[data |-> d, complete |-> TRUE, spec |-> WavSpec(rate)] :
        d \in FinalizeData, rate \in {LowRate, HighRate}}

FinalizeDirs == UNION {[I -> FinalizeFiles] : I \in SUBSET FinalizeIndices}

\* A microphone session of the app copy is active; its directory holds the
\* chunk files, and its scheduler has counted up to the largest index.
InitFinalize ==
    /\ build = "app" /\ host = {"Microphone"}
    /\ sample_rate = LowRate /\ chunk_secs = 1
    /\ session_id = 1 /\ session_dir = 1 /\ active_sources = <<MicId>>
    /\ kind = "mic" /\ chunk_task = None /\ chunk_index = 0
    /\ sources = {MicId} /\ is_recording = TRUE /\ active_streams = <<MicId>>
    /\ audio_buffers = (MicId :> <<>>)
    /\ buffers_lock = Free
    /\ streams = [s \in SourceIds |-> IF s = MicId THEN 1 ELSE 0]
    /\ delivered = [s \in SourceIds |-> 0]
    /\ pending = {}
    /\ \E dir \in FinalizeDirs :
          /\ dirs = (1 :> dir)
          /\ tasks = [t \in SessionIds |->
                         IF t = 1
                         THEN [NoTask EXCEPT
                                 !.pc = "sleep", !.src_ids = <<MicId>>, !.kind = "mic",
                                 !.index = IF DOMAIN dir = {} THEN 0
                                           ELSE next_index(dir) - 1]
                         ELSE NoTask]
    /\ events = [t \in SessionIds |-> <<>>]
    /\ next_uuid = 1 /\ stopped = {} /\ replaced = {} /\ late = {}
    /\ polled = [t \in SessionIds |-> <<>>]
    /\ handed = [t \in SessionIds |-> <<>>]
    /\ drained = [s \in SourceIds |-> <<>>]
    /\ opened = [s \in SourceIds |-> IF s = MicId THEN 1 ELSE 0]
    /\ last_mix = NoMix
    /\ write_failures = 0
    /\ audio_data = <<>> /\ last_call = NoCall
    /\ final_wav = [t \in {} |-> <<>>]
    /\ finalizing = NotFinalizing
    /\ last_finalize = NoFinalize
    /\ separate = [t \in SessionIds |-> <<>>]
    /\ transcript = [t \in SessionIds |-> <<>>]
    /\ Untouched
    /\ encoded = NotEncoded

NextFinalize ==
    \/ AcStopAndFinalizeGrab
    \/ AcStopAndFinalizeStop
    \/ \E io \in FinalizeOutcomes : AcStopAndFinalizePost(io)

SpecFinalize == InitFinalize /\ [][NextFinalize]_vars

\* ac_stop_and_finalize next to the other commands: between its two
\* acquisitions of the chunker lock ac_start_mic or ac_stop_all can run.
NextFinalizeRace ==
    \/ AcStopAndFinalizeGrab
    \/ AcStopAndFinalizeStop
    \/ \E io \in FinalizeOutcomes : AcStopAndFinalizePost(io)
    \/ StartMic(MaxSessions)
    \/ StopAll

SpecFinalizeRace == InitFinalize /\ [][NextFinalizeRace]_vars

\* ------------------------------------------------------ separate emission
\* ac_toggle_separate_emission(true) before ac_start_mix: after each chunk the
\* task polls both sources and writes what is not empty, up to the poll limit,
\* to chunk_<index>_mic.wav and chunk_<index>_sys.wav with the chunk's index.
SeparateIndices == {1, 2}

SeparateData == {<<8>>}

SeparateChunks ==
    {[data |-> d, complete |-> TRUE, spec |-> WavSpec(LowRate)] : d \in FinalizeData}

SeparateFiles ==
    {[data |-> d, complete |-> TRUE, spec |-> WavSpec(LowRate)] : d \in SeparateData}

\* A mix session of the app copy with separate emission is active; its
\* directory holds chunk files and, for some of them, per-source files.
InitSeparate ==
    /\ build = "app" /\ host = {"Microphone", "SystemAudio"}
    /\ sample_rate = LowRate /\ chunk_secs = 1
    /\ session_id = 1 /\ session_dir = 1 /\ active_sources = <<MicId, SysId>>
    /\ kind = "mix" /\ chunk_task = None /\ chunk_index = 0
    /\ sources = {MicId, SysId} /\ is_recording = TRUE
    /\ active_streams = <<MicId, SysId>>
    /\ audio_buffers = (MicId :> <<>>) @@ (SysId :> <<>>)
    /\ buffers_lock = Free
    /\ streams = [s \in SourceIds |-> IF s \in {MicId, SysId} THEN 1 ELSE 0]
    /\ delivered = [s \in SourceIds |-> 0]
    /\ pending = {}
    /\ \E I \in SUBSET SeparateIndices :
       \E dir \in [I -> SeparateChunks] :
       \E K \in SUBSET (I \X SourceTags) :
       \E sep \in [K -> SeparateFiles] :
          /\ dirs = (1 :> dir)
          /\ separate = [t \in SessionIds |-> IF t = 1 THEN sep ELSE <<>>]
          /\ tasks = [t \in SessionIds |->
                         IF t = 1
                         THEN [NoTask EXCEPT
                                 !.pc = "sleep", !.src_ids = <<MicId, SysId>>,
                                 !.kind = "mix",
                                 !.index = IF I = {} THEN 0 ELSE next_index(dir) - 1]
                         ELSE NoTask]
    /\ events = [t \in SessionIds |-> <<>>]
    /\ next_uuid = 1 /\ stopped = {} /\ replaced = {} /\ late = {}
    /\ polled = [t \in SessionIds |-> <<>>]
    /\ handed = [t \in SessionIds |-> <<>>]
    /\ drained = [s \in SourceIds |-> <<>>]
    /\ opened = [s \in SourceIds |-> IF s \in {MicId, SysId} THEN 1 ELSE 0]
    /\ last_mix = NoMix
    /\ write_failures = 0
    /\ audio_data = <<>> /\ last_call = NoCall
    /\ final_wav = [t \in {} |-> <<>>]
    /\ finalizing = NotFinalizing
    /\ last_finalize = NoFinalize
    /\ transcript = [t \in SessionIds |-> <<>>]
    /\ Untouched
    /\ encoded = NotEncoded

\* The post_process of a second ac_stop_and_finalize that read the same
\* session_dir before the first one's stop_all cleared it.
AcStopAndFinalizePostAgain(io) ==
    /\ finalizing.pc = "idle"
    /\ last_finalize.dir # None
    /\ post_process(last_finalize.dir, io)
    /\ UNCHANGED <<build, host, chunker, capture, buffers_lock, hardware, tasks,
                   dirs, events, history, direct, finalizing, separate,
                   transcript, outside>>

NextSeparate ==
    \/ AcStopAndFinalizeGrab
    \/ AcStopAndFinalizeStop
    \/ \E io \in FinalizeOutcomes : AcStopAndFinalizePost(io)
    \/ \E io \in FinalizeOutcomes : AcStopAndFinalizePostAgain(io)

SpecSeparate == InitSeparate /\ [][NextSeparate]_vars

\* ------------------------------------------------------------ handle_chunk
\* A chunk event reaches the coordinator on two ways in the application:
\* the scheduler task spawns handle_chunk right after the emit ("direct"),
\* and the listener main registers for audio:chunk spawns handle_chunk for
\* every event it receives ("listener").
Forwarders == {"direct", "listener"}

\* The line one run of handle_chunk appends to transcript.jsonl (and, in the
\* same run, to live.txt): the chunk's path and its times; via is the way the
\* event came.
TranscriptLine(event, via) ==
    [chunk |-> event.path, start |-> event.start_ms, end |-> event.end_ms,
     via |-> via]

\* Coordinator::handle_chunk for the i-th event of session t, forwarded on
\* one of the two ways. The runs are serialised by the coordinator's mutex;
\* each forwarder spawns one run per event.
HandleChunk(t, i, via) ==
    /\ build = "app"
    /\ i \in 1..Len(events[t])
    /\ \A k \in 1..Len(transcript[t]) :
           transcript[t][k] # TranscriptLine(events[t][i], via)
    /\ transcript' = [transcript EXCEPT
                         ![t] = Append(@, TranscriptLine(events[t][i], via))]
    /\ UNCHANGED <<build, host, chunker, capture, buffers_lock, hardware, tasks,
                   dirs, events, history, direct, final_wav, finalizing,
                   last_finalize, separate, outside>>

\* The application with one microphone session that writes chunks, and the
\* coordinator handling what is forwarded to it.
InitTranscript == New(LowRate) /\ build = "app" /\ host = {"Microphone"}

NextTranscript ==
    \/ StartMic(1)
    \/ TaskLock(1, LongPolled)
    \/ TaskPoll(1)
    \/ \E out \in {"ok", "error"} : TaskWrite(1, out)
    \/ MicCallback(LongCallbacks)
    \/ \E i \in 1..LongPolled, via \in Forwarders : HandleChunk(1, i, via)

SpecTranscript == InitTranscript /\ [][NextTranscript]_vars

\* ------------------------------------------------------------ AudioCapture
\* audio.rs: one buffer (audio_data) for all devices.  The streams are leaked
\* (std::mem::forget) and nothing stops them; capture_streams counts them.
\* The k-th sample the data callbacks are handed, over all streams, has the
\* value k.
\* let max_samples = 44100 * 30 * 2, scaled down.
MaxSamples == 4
\* Streams opened and data callbacks run in one run of AudioCapture.
CaptureStarts == 2
CaptureCallbacks == 3

RECURSIVE TotalStreams(_, _)
TotalStreams(f, D) ==
    IF D = {} THEN 0
    ELSE LET d == CHOOSE x \in D : TRUE IN f[d] + TotalStreams(f, D \ {d})

\* devices.retain(|d| d != device_id)
retain(devs, device_id) == SelectSeq(devs, LAMBDA d : d # device_id)

\* A start_capture that does not look for the device in active_devices.
already_capturing_unchecked(devs, device_id) == FALSE

\* if active_devices.contains(&device_id) { return Ok(()) }
already_capturing(devs, device_id) == device_id \in SeqToSet(devs)

\* What start_capture(device_id) returned, for the history.
StartCaptureCall(device_id, ok) ==
    [NoCall EXCEPT !.op = "start_capture", !.id = device_id, !.ok = ok,
                   !.active = active_devices]

\* start_capture: Ok at once when the device is already capturing; an error
\* finding the device, its config, or building or playing the stream returns
\* Err with nothing changed; else the stream is leaked, the id pushed and the
\* flag set.  A command holds the mutex around AudioCapture for the whole call.
StartCapture(device_id, out) ==
    LET already == already_capturing(active_devices, device_id)
    IN /\ capture_starting.pc = "idle"
       /\ TotalStreams(capture_streams, DeviceIds) < CaptureStarts
       /\ last_call' = StartCaptureCall(device_id, already \/ out = "ok")
       /\ IF already \/ out # "ok"
          THEN UNCHANGED <<active_devices, capture_is_recording, capture_streams,
                           errored>>
          ELSE /\ capture_streams' = [capture_streams EXCEPT ![device_id] = @ + 1]
               /\ active_devices' = Append(active_devices, device_id)
               /\ capture_is_recording' = TRUE
               /\ errored' = errored \ {device_id}
       /\ UNCHANGED <<build, host, chunker, capture, buffers_lock, hardware, tasks,
                      dirs, events, history, audio_data, finalizer,
                      capture_delivered, devices, locks, capture_starting, encoded>>

\* stop_capture: clear the flag, the device list and the buffer.
StopCapture ==
    /\ capture_starting.pc = "idle"
    /\ capture_is_recording' = FALSE
    /\ active_devices' = <<>>
    /\ audio_data' = <<>>
    /\ UNCHANGED <<build, host, chunker, capture, buffers_lock, hardware, tasks,
                   dirs, events, history, last_call, finalizer, capture_streams,
                   capture_delivered, errored, devices, locks, capture_starting, encoded>>

\* stop_device_capture: remove the id; clear the flag when none is left.
StopDeviceCapture(device_id) ==
    /\ capture_starting.pc = "idle"
    /\ active_devices' = retain(active_devices, device_id)
    /\ capture_is_recording' = IF active_devices' = <<>> THEN FALSE
                               ELSE capture_is_recording
    /\ UNCHANGED <<build, host, chunker, capture, buffers_lock, hardware, tasks,
                   dirs, events, history, direct, finalizer, capture_streams,
                   capture_delivered, errored, devices, locks, capture_starting, encoded>>

\* The data callback: when the buffer holds more than max_samples, drain the
\* oldest down to max_samples; then extend_from_slice(data).
data_callback(buffer, data) ==
    LET current_len == Len(buffer)
        kept == IF current_len > MaxSamples
                THEN Drop(buffer, current_len - MaxSamples)
                ELSE buffer
    IN kept \o data

\* One leaked stream of device_id hands BatchLen samples to its data callback;
\* the callback does not read the flag.
DataCallback(device_id) ==
    /\ capture_streams[device_id] > 0
    /\ capture_delivered < CaptureCallbacks * BatchLen
    /\ audio_data' = data_callback(audio_data,
                                   [i \in 1..BatchLen |-> capture_delivered + i])
    /\ capture_delivered' = capture_delivered + BatchLen
    /\ UNCHANGED <<build, host, chunker, capture, buffers_lock, hardware, tasks,
                   dirs, events, history, last_call, finalizer, active_devices,
                   capture_is_recording, capture_streams, errored, devices, locks, capture_starting,
                   encoded>>

\* The error callback of a stream of device_id: remove the id from
\* active_devices and clear the flag when the list is empty.
ErrorCallback(device_id) ==
    /\ capture_streams[device_id] > 0
    /\ device_id \notin errored
    /\ errored' = errored \cup {device_id}
    /\ active_devices' = retain(active_devices, device_id)
    /\ capture_is_recording' = IF active_devices' = <<>> THEN FALSE
                               ELSE capture_is_recording
    /\ UNCHANGED <<build, host, chunker, capture, buffers_lock, hardware, tasks,
                   dirs, events, history, direct, finalizer, capture_streams,
                   capture_delivered, devices, locks, capture_starting, encoded>>

\* get_audio_data: drain the whole buffer.
GetAudioData ==
    /\ audio_data # <<>>
    /\ audio_data' = <<>>
    /\ UNCHANGED <<build, host, chunker, capture, buffers_lock, hardware, tasks,
                   dirs, events, history, last_call, finalizer, active_devices,
                   capture_is_recording, capture_streams, capture_delivered,
                   errored, devices, locks, capture_starting, encoded>>

CaptureOutcomes == {"ok", "fail"}

NextCapture ==
    \/ \E d \in DeviceIds, out \in CaptureOutcomes : StartCapture(d, out)
    \/ StopCapture
    \/ \E d \in DeviceIds : StopDeviceCapture(d)
    \/ \E d \in DeviceIds : DataCallback(d)
    \/ \E d \in DeviceIds : ErrorCallback(d)
    \/ GetAudioData

SpecCapture == Init /\ [][NextCapture]_vars

\* start_capture one step at a time, next to the error callback, which runs
\* on the stream's thread.  First the check, and the stream built, played and
\* leaked;
StartCaptureOpen(device_id, out) ==
    LET already == already_capturing(active_devices, device_id)
    IN /\ capture_starting.pc = "idle"
       /\ TotalStreams(capture_streams, DeviceIds) < CaptureStarts
       /\ last_call' = StartCaptureCall(device_id, already \/ out = "ok")
       /\ IF already \/ out # "ok"
          THEN UNCHANGED <<capture_streams, errored, capture_starting>>
          ELSE /\ capture_streams' = [capture_streams EXCEPT ![device_id] = @ + 1]
               /\ errored' = errored \ {device_id}
               /\ capture_starting' = [pc |-> "push", device |-> device_id]
       /\ UNCHANGED <<build, host, chunker, capture, buffers_lock, hardware, tasks,
                      dirs, events, history, audio_data, finalizer, active_devices,
                      capture_is_recording, capture_delivered, devices, locks,
                      encoded>>

\* then, under the active_devices lock, devices.push(device_id);
StartCapturePush ==
    /\ capture_starting.pc = "push"
    /\ active_devices' = Append(active_devices, capture_starting.device)
    /\ capture_starting' = [capture_starting EXCEPT !.pc = "store"]
    /\ UNCHANGED <<build, host, chunker, capture, buffers_lock, hardware, tasks,
                   dirs, events, history, direct, finalizer, capture_is_recording,
                   capture_streams, capture_delivered, errored, devices, locks,
                   encoded>>

\* then, after the lock is released, is_recording.store(true).
StartCaptureStore ==
    /\ capture_starting.pc = "store"
    /\ capture_is_recording' = TRUE
    /\ capture_starting' = NotCapturing
    /\ UNCHANGED <<build, host, chunker, capture, buffers_lock, hardware, tasks,
                   dirs, events, history, direct, finalizer, active_devices,
                   capture_streams, capture_delivered, errored, devices, locks,
                   encoded>>

NextCaptureRace ==
    \/ \E d \in DeviceIds, out \in CaptureOutcomes : StartCaptureOpen(d, out)
    \/ StartCapturePush
    \/ StartCaptureStore
    \/ StopCapture
    \/ \E d \in DeviceIds : StopDeviceCapture(d)
    \/ \E d \in DeviceIds : ErrorCallback(d)

SpecCaptureRace == Init /\ [][NextCaptureRace]_vars

\* ------------------------------------------------------------ stream errors
\* The error callbacks of MultiSourceAudioCapture (microphone, PulseAudio
\* monitor): |err| eprintln!(..), nothing else.
StreamError(source_id) ==
    /\ streams[source_id] > 0
    /\ source_id \notin errored
    /\ errored' = errored \cup {source_id}
    /\ UNCHANGED <<build, host, chunker, capture, buffers_lock, hardware, tasks,
                   dirs, events, history, direct, finalizer, audio_capture,
                   devices, locks, encoded>>

\* One session of the chunker and two devices of AudioCapture, with stream
\* errors on either engine.
NextErrors ==
    \/ StartMic(1)
    \/ StartSystem(1)
    \/ StartMix(1)
    \/ StopAll
    \/ TaskLock(1, CmdPolled)
    \/ TaskPoll(1)
    \/ MicCallback(CmdCallbacks)
    \/ \E s \in SourceIds : StreamError(s)
    \/ \E d \in DeviceIds : StartCapture(d, "ok")
    \/ \E d \in DeviceIds : ErrorCallback(d)

SpecErrors == Init /\ [][NextErrors]_vars

\* ------------------------------------------------------------ source ids
\* The input devices the audio host can have plugged in; host.input_devices()
\* lists those present, in the host's order.
Endpoints == {"builtin", "usb", "headset"}

\* format!("mic_{}", devices.len()): the id of the n-th listed device, from 0.
mic_id(n) == CASE n = 0 -> "mic_0" [] n = 1 -> "mic_1" [] OTHER -> "mic_2"

MicIds == {mic_id(n) : n \in 0..(Cardinality(Endpoints) - 1)}

\* source.id.strip_prefix("mic_").and_then(|s| s.parse::<usize>().ok())
\* .unwrap_or(0)
device_index(id) ==
    IF id \in MicIds THEN CHOOSE n \in 0..(Cardinality(Endpoints) - 1) : mic_id(n) = id
    ELSE 0

\* s with e inserted so that it becomes the element at position at.
InsertAt(s, at, e) == Take(s, at - 1) \o <<e>> \o Drop(s, at - 1)

\* What host holds while input_devices is devs.
HostOf(devs) == (host \ {"Microphone"})
                \cup (IF devs = <<>> THEN {} ELSE {"Microphone"})

\* A device is plugged in; the host lists it at any position.
Plug(e, at) ==
    /\ e \notin SeqToSet(input_devices)
    /\ at \in 1..(Len(input_devices) + 1)
    /\ input_devices' = InsertAt(input_devices, at, e)
    /\ host' = HostOf(input_devices')
    /\ UNCHANGED <<build, chunker, capture, buffers_lock, hardware, tasks, dirs,
                   events, history, direct, finalizer, audio_capture, errored,
                   named, locks, encoded>>

\* A device is unplugged.
Unplug(e) ==
    /\ e \in SeqToSet(input_devices)
    /\ input_devices' = SelectSeq(input_devices, LAMBDA d : d # e)
    /\ host' = HostOf(input_devices')
    /\ UNCHANGED <<build, chunker, capture, buffers_lock, hardware, tasks, dirs,
                   events, history, direct, finalizer, audio_capture, errored,
                   named, locks, encoded>>

\* get_microphone_devices: one AudioSource per listed device, its id made
\* from its position in the list.
get_microphone_devices ==
    {<<mic_id(n - 1), input_devices[n]>> : n \in 1..Len(input_devices)}

\* discover_sources (the command ac_get_devices): the sources map gains or
\* overwrites an entry per id and never loses one.
DiscoverSources ==
    /\ sources' = sources \cup {p[1] : p \in get_microphone_devices}
                          \cup (IF "SystemAudio" \in host THEN {SysId} ELSE {})
    /\ named' = named \cup get_microphone_devices
    /\ UNCHANGED <<build, host, chunker, audio_buffers, is_recording,
                   active_streams, buffers_lock, hardware, tasks, dirs, events,
                   history, direct, finalizer, audio_capture, errored,
                   input_devices, locks, encoded>>

\* The index lookup of start_microphone_capture for an id of the sources map:
\* devices.get(device_index) in a fresh host.input_devices(); Err when the
\* list is shorter.
LookupMicrophone(id) ==
    /\ id \in sources \cap MicIds
    /\ device_index(id) < Len(input_devices)
    /\ named' = named \cup {<<id, input_devices[device_index(id) + 1]>>}
    /\ UNCHANGED <<build, host, chunker, capture, buffers_lock, hardware, tasks,
                   dirs, events, history, direct, finalizer, audio_capture,
                   errored, input_devices, locks, encoded>>

InitDevices == New(LowRate) /\ build = "app" /\ "Microphone" \notin host

NextDevices ==
    \/ \E e \in Endpoints, at \in 1..Cardinality(Endpoints) : Plug(e, at)
    \/ \E e \in Endpoints : Unplug(e)
    \/ DiscoverSources
    \/ \E id \in MicIds : LookupMicrophone(id)

SpecDevices == InitDevices /\ [][NextDevices]_vars

\* ------------------------------------------------------------ the encoder
\* write_wav_chunk turns each f32 sample into an i16:
\*     (sample.max(-1.0).min(1.0) * i16::MAX as f32) as i16
\* A sample is modelled in steps of 1 / EncodeScale: the integer n stands for
\* the f32 value n / EncodeScale, for n up to EncodeRange either way.
EncodeScale == 40
EncodeRange == 60

I16Max == 32767
I16Min == -32768

\* An encoder that scales the sample as it comes.
clamp_none(sample) == sample

\* sample.max(-1.0).min(1.0)
clamp(sample) ==
    IF sample < -EncodeScale THEN -EncodeScale
    ELSE IF sample > EncodeScale THEN EncodeScale
    ELSE sample

\* `as i16` of a float: the fraction is cut off towards zero and a value out
\* of range becomes the nearest i16.
as_i16(num, den) ==
    LET whole == IF num >= 0 THEN num \div den ELSE -((-num) \div den)
    IN IF whole > I16Max THEN I16Max
       ELSE IF whole < I16Min THEN I16Min
       ELSE whole

encode(sample) == as_i16(clamp(sample) * I16Max, EncodeScale)

EncodeInputs == (-EncodeRange)..EncodeRange

\* The encoder is given two samples
InitEncode ==
    /\ build = "app" /\ host = {} /\ chunk_secs = 1
    /\ Idle(LowRate)
    /\ audio_buffers = [s \in {} |-> <<>>]
    /\ active_streams = <<>>
    /\ audio_data = <<>>
    /\ encoded \in {[input |-> <<a, b>>, output |-> <<0, 0>>, done |-> FALSE] :
                       a \in EncodeInputs, b \in EncodeInputs}

\* and writes each of them.
Encode ==
    /\ ~encoded.done
    /\ encoded' = [encoded EXCEPT !.output = <<encode(encoded.input[1]),
                                               encode(encoded.input[2])>>,
                                  !.done = TRUE]
    /\ UNCHANGED <<build, host, chunker, capture, buffers_lock, hardware, tasks,
                   dirs, events, history, direct, finalizer, audio_capture,
                   errored, devices, locks>>

NextEncode == Encode

SpecEncode == InitEncode /\ [][NextEncode]_vars

\* --------------------------------------------------------------- the locks
\* start_session one await at a time.  Its first part: stop_all, the uuid and
\* the directory of the session, and in start_multi_recording
\* self.sources.lock() and self.active_streams.lock(), which the command keeps
\* until start_multi_recording returns.  (Only commands take the sources lock,
\* one at a time.)  outcome: how the opening of each source will end.
StartBegin(ids, k, outcome, max_sessions) ==
    /\ starting.pc = "idle"
    /\ next_uuid < max_sessions
    /\ streams_lock = Free
    /\ tasks' = abort_chunk_task
    /\ is_recording' = FALSE
    /\ active_streams' = stop_recording_active(is_recording, active_streams)
    /\ active_sources' = <<>> /\ kind' = NoKind
    /\ session_id' = None /\ session_dir' = None /\ chunk_task' = None
    /\ chunk_index' = 0
    /\ stopped' = stop_all_stopped
    /\ next_uuid' = next_uuid + 1
    /\ dirs' = (next_uuid + 1 :> [i \in {} |-> <<>>]) @@ dirs
    /\ sources' = sources \cup SeqToSet(discover_sources)
    /\ streams_lock' = Command
    /\ starting' = [pc |-> "loop", ids |-> ids, todo |-> ids, kind |-> k,
                    outcome |-> outcome]
    /\ UNCHANGED <<build, host, sample_rate, chunk_secs, audio_buffers,
                   buffers_lock, hardware, events, replaced, late, polled,
                   handed, drained, opened, last_mix, write_failures, direct,
                   finalizer, audio_capture, errored, devices, mic_callback,
                   encoded>>

\* start_mic and start_mix, up to the loop of start_multi_recording.
StartMicBegin(max_sessions) ==
    /\ find_type("Microphone") # <<>>
    /\ \E outcome \in Outcomes(find_type("Microphone")) :
           StartBegin(find_type("Microphone"), "mic", outcome, max_sessions)

StartMixBegin(max_sessions) ==
    LET ids == find_type("Microphone") \o find_type("SystemAudio")
    IN /\ ids # <<>>
       /\ \E outcome \in Outcomes(ids) : StartBegin(ids, "mix", outcome, max_sessions)

\* The start waits at self.audio_buffers.lock().await for its next source (a
\* microphone that fails early returns before it takes the lock).
needs_buffers ==
    /\ starting.pc = "loop"
    /\ starting.todo # <<>>
    /\ starting.outcome[Head(starting.todo)] # "fail_early"

\* One turn of the loop of start_multi_recording: start_source_recording takes
\* the audio_buffers lock, inserts the buffer, builds, plays and leaks the
\* stream without another await, and the loop pushes the id.
StartSource ==
    LET id == Head(starting.todo)
        st == start_source_recording(
                  [active |-> active_streams, buffers |-> audio_buffers,
                   streams |-> streams, opened |-> opened],
                  id, starting.outcome[id])
    IN /\ starting.pc = "loop"
       /\ starting.todo # <<>>
       /\ needs_buffers => buffers_lock = Free
       /\ active_streams' = st.active
       /\ audio_buffers' = st.buffers
       /\ streams' = st.streams
       /\ opened' = st.opened
       /\ starting' = [starting EXCEPT !.todo = Tail(@)]
       /\ UNCHANGED <<build, host, chunker, sources, is_recording, buffers_lock,
                      delivered, pending, tasks, dirs, events, next_uuid, stopped,
                      replaced, late, polled, handed, drained, last_mix,
                      write_failures, direct, finalizer, audio_capture, errored,
                      devices, streams_lock, mic_callback, encoded>>

\* After the loop: start_multi_recording stores is_recording and returns (its
\* guards are dropped), and on Ok start_session sets its fields and spawns the
\* task.
StartEnd ==
    LET sid == next_uuid
        ok == started(active_streams)
    IN /\ starting.pc = "loop"
       /\ starting.todo = <<>>
       /\ streams_lock' = Free
       /\ starting' = NotStarting
       /\ is_recording' = ok
       /\ tasks' = IF ok THEN [tasks EXCEPT ![sid] = NewTask(starting.ids, starting.kind)]
                   ELSE tasks
       /\ session_id' = IF ok THEN sid ELSE None
       /\ session_dir' = IF ok THEN sid ELSE None
       /\ active_sources' = IF ok THEN starting.ids ELSE <<>>
       /\ kind' = IF ok THEN starting.kind ELSE NoKind
       /\ chunk_task' = IF ok /\ build = "plugin" THEN sid ELSE None
       /\ chunk_index' = 0
       /\ replaced' = IF ok THEN replaced \cup {t \in SessionIds : tasks[t].pc # "none"}
                      ELSE replaced
       /\ UNCHANGED <<build, host, sample_rate, chunk_secs, sources, audio_buffers,
                      active_streams, buffers_lock, hardware, dirs, events,
                      next_uuid, stopped, late, polled, handed, drained, opened,
                      last_mix, write_failures, direct, finalizer, audio_capture,
                      errored, devices, mic_callback, encoded>>

\* The task waits at self.active_streams.lock().await inside mix_audio_sources
\* with the audio_buffers guard in its hands.
waits_for_streams(t) ==
    /\ tasks[t].pc = "locked"
    /\ use_mixer(tasks[t].src_ids)
    /\ streams_lock # Free

\* The aborted task of the plugin copy is dropped at the await it waits at:
\* its audio_buffers guard is dropped with it.
TaskCancelled(t) ==
    /\ tasks[t].aborted
    /\ waits_for_streams(t)
    /\ buffers_lock' = Free
    /\ tasks' = [tasks EXCEPT ![t].pc = "none"]
    /\ UNCHANGED <<outside, finalizer, build, host, chunker, capture, hardware,
                   dirs, events, history, direct>>

\* The hardware calls the microphone callback while the audio_buffers lock is
\* held: block_on(audio_buffers.lock()) parks the callback thread.
MicBlocked(max_callbacks) ==
    /\ streams[MicId] > 0
    /\ mic_callback = "idle"
    /\ delivered[MicId] + delivered[SysId] < max_callbacks * BatchLen
    /\ buffers_lock # Free
    /\ mic_callback' = "waiting"
    /\ UNCHANGED <<build, host, chunker, capture, buffers_lock, hardware, tasks,
                   dirs, events, history, direct, finalizer, audio_capture,
                   errored, devices, streams_lock, starting, encoded>>

\* The lock is released: the parked callback gets it and appends its data.
MicResume ==
    /\ mic_callback = "waiting"
    /\ buffers_lock = Free
    /\ mic_callback' = "idle"
    /\ delivered' = [delivered EXCEPT ![MicId] = @ + BatchLen]
    /\ audio_buffers' = IF MicId \in DOMAIN audio_buffers
                        THEN [audio_buffers EXCEPT ![MicId] =
                                 @ \o Repeat(Batch(MicId, delivered[MicId] + 1, BatchLen),
                                             streams[MicId])]
                        ELSE audio_buffers
    /\ UNCHANGED <<build, host, chunker, sources, is_recording, active_streams,
                   buffers_lock, streams, pending, tasks, dirs, events, history,
                   direct, finalizer, audio_capture, errored, devices,
                   streams_lock, starting, encoded>>

\* Sessions started one await at a time next to their tasks, the tasks of
\* earlier sessions and the microphone's callback thread.
NextLocks ==
    \/ StartMicBegin(MaxSessions)
    \/ StartMixBegin(MaxSessions)
    \/ StartSource
    \/ StartEnd
    \/ StopAll
    \/ \E t \in SessionIds : TaskLock(t, CmdPolled)
    \/ \E t \in SessionIds : TaskPoll(t)
    \/ \E t \in SessionIds : TaskCancelled(t)
    \/ MicCallback(CmdCallbacks)
    \/ MicBlocked(CmdCallbacks)
    \/ MicResume

SpecLocks == Init /\ [][NextLocks]_vars

\* ------------------------------------------------------------- properties
\* C1: after start(A) and then start(B) has returned, no chunk file is written
\* into A's directory and no chunk event carrying A's session id is emitted.
C1_OnlyNewSessionReceivesChunks ==
    \A e \in late : e.after_restart => e.op \notin {"write", "emit"}

\* C2: once stop_all has returned, the scheduler task of the stopped session
\* never again drains a buffer, writes a chunk file or emits an event.
C2_StoppedTaskIsCancelled == late = {}

\* C3: within one session the indices of the emitted events, and of the chunk
\* files, are 1, 2, 3, ... with no gap and no repeat.
C3_IndicesCountUp ==
    /\ \A t \in SessionIds : \A i \in 1..Len(events[t]) : events[t][i].index = i
    /\ \A t \in DOMAIN dirs : DOMAIN dirs[t] = 1..Cardinality(DOMAIN dirs[t])

\* C4: every chunk handed to the encoder holds exactly target_samples samples,
\* the chunks are the accumulated stream cut from the front in order with the
\* leftover kept, and no file holds a shorter chunk, also after a stop.
C4_ChunksAreExact ==
    \A t \in SessionIds :
        /\ \A k \in 1..Len(handed[t]) : Len(handed[t][k]) = target_samples
        /\ Flatten(handed[t]) \o tasks[t].accumulated = polled[t]
        /\ tasks[t].pc = "write" => tasks[t].chunk = handed[t][Len(handed[t])]
        /\ t \in DOMAIN dirs =>
              \A i \in DOMAIN dirs[t] :
                  dirs[t][i].complete =>
                      /\ Len(dirs[t][i].data) = target_samples
                      /\ \E k \in 1..Len(handed[t]) : dirs[t][i].data = handed[t][k]

\* A stopped session that wrote a chunk and still holds a leftover.
C4_Witness ==
    \E t \in DOMAIN dirs :
        /\ t \in stopped
        /\ tasks[t].accumulated # <<>>
        /\ \E i \in DOMAIN dirs[t] : dirs[t][i].complete

\* C5: every emitted event has end_ms - start_ms = duration_ms,
\* index * duration_ms = end_ms and duration_ms = chunk_secs * 1000.
C5_EventTimesAgree ==
    \A t \in SessionIds : \A i \in 1..Len(events[t]) :
        LET e == events[t][i]
        IN /\ e.end_ms - e.start_ms = e.duration_ms
           /\ e.index * e.duration_ms = e.end_ms
           /\ e.duration_ms = chunk_secs * 1000

\* C6: a poll through the mixer removes the samples it returned from the
\* buffer of every active source.
C6_MixedPollDrains ==
    last_mix.n > 0 =>
        \A i \in 1..Len(last_mix.before) :
            last_mix.after[i] = last_mix.before[i] - last_mix.n

\* The sum of sample i over the active sources.
RECURSIVE SumAt(_, _, _)
SumAt(buffers, active, i) ==
    IF active = <<>> THEN 0
    ELSE buffers[Head(active)][i] + SumAt(buffers, Tail(active), i)

\* C7: the mix has N = min(shortest active buffer, max_samples if given)
\* samples (none without an active source) and sample i is the arithmetic mean
\* of sample i of the active buffers.
C7_MixIsMean ==
    last_call.op = "mix" =>
        LET b == last_call.before
            a == last_call.active
            r == last_call.result
            lens == {Len(b[a[j]]) : j \in 1..Len(a)}
            shortest == IF lens = {} THEN 0
                        ELSE CHOOSE l \in lens : \A m \in lens : l <= m
            N == IF last_call.max = None THEN shortest
                 ELSE Min(shortest, last_call.max)
        IN /\ Len(r) = N
           /\ \A i \in 1..N : r[i] * Len(a) = SumAt(b, a, i)
           /\ audio_buffers = b

\* Two constant buffers [x, x, ...] and [y, y, ...] of one length were mixed
\* in full, to [(x + y) / 2, ...].
C7_Witness ==
    /\ last_call.op = "mix"
    /\ Len(last_call.active) = 2
    /\ \E x, y \in DirectValues :
          /\ x # y
          /\ last_call.before[last_call.active[1]] = [i \in 1..MaxLen |-> x]
          /\ last_call.before[last_call.active[2]] = [i \in 1..MaxLen |-> y]
          /\ last_call.result = [i \in 1..MaxLen |-> (x + y) \div 2]

\* C8: a drain returns min(max_samples, length) samples from the front and
\* leaves the rest in order; an unknown id gives an empty result and changes
\* nothing; no call returns an error.  For get_source_audio and for
\* get_audio_data_chunk.
C8_DrainTakesFromFront ==
    /\ last_call.op = "source" =>
          LET b == last_call.before
              id == last_call.id
              r == last_call.result
          IN /\ last_call.ok
             /\ IF id \in DOMAIN b
                THEN /\ Len(r) = (IF last_call.max = None THEN Len(b[id])
                                  ELSE Min(last_call.max, Len(b[id])))
                     /\ r \o audio_buffers[id] = b[id]
                     /\ DOMAIN audio_buffers = DOMAIN b
                     /\ \A o \in DOMAIN b \ {id} : audio_buffers[o] = b[o]
                ELSE r = <<>> /\ audio_buffers = b
    /\ last_call.op = "chunk" =>
          /\ last_call.ok
          /\ Len(last_call.result) = Min(last_call.max, Len(last_call.before))
          /\ last_call.result \o audio_data = last_call.before

\* A drain that asked for more than a non-empty buffer held and emptied it.
C8_Witness ==
    /\ last_call.op = "source"
    /\ last_call.id \in DOMAIN last_call.before
    /\ last_call.max # None
    /\ last_call.before[last_call.id] # <<>>
    /\ last_call.max > Len(last_call.before[last_call.id])
    /\ last_call.result = last_call.before[last_call.id]
    /\ audio_buffers[last_call.id] = <<>>

\* C9: for a source opened once, with one stream and no delivery in flight,
\* everything drained so far followed by what the buffer holds is exactly what
\* the hardware delivered, in order.
C9_NoSampleLostOrDuplicated ==
    \A s \in SourceIds :
        (/\ opened[s] = 1 /\ streams[s] = 1
         /\ pending = {}
         /\ s \in DOMAIN audio_buffers)
        => drained[s] \o audio_buffers[s] = Batch(s, 1, delivered[s])

\* C10: in the single-source session that is active the k-th chunk holds, in delivery order,
\* exactly the k-th run of target_samples samples the hardware delivered to the
\* source's callback since the session started.
C10_ChunkHoldsItsPositions ==
    \A t \in SessionIds :
        (t = session_id /\ Len(tasks[t].src_ids) = 1) =>
            \A k \in 1..Len(handed[t]) :
                handed[t][k] = Batch(tasks[t].src_ids[1],
                                     tasks[t].base + (k - 1) * target_samples + 1,
                                     target_samples)

\* The chunker and its capture engine hold no session.
Cleared ==
    /\ session_id = None /\ session_dir = None
    /\ active_sources = <<>> /\ kind = NoKind
    /\ chunk_index = 0 /\ chunk_task = None
    /\ ~is_recording /\ active_streams = <<>>
    /\ ac_get_active_session_info = [session_id |-> None, session_dir |-> None]

\* Every session that was started and is not the current one has been stopped,
\* and without a current session everything is cleared.
C11_OneSession ==
    /\ {t \in SessionIds : tasks[t].pc # "none"} \ stopped
           \subseteq {session_id} \ {None}
    /\ chunk_index = 0
    /\ session_id = None => Cleared
    /\ session_id # None => session_dir = session_id /\ is_recording

\* A stop_all that found a session (a stop that is not part of a start) leaves
\* everything cleared; with no session active, a step that is not a start
\* changes none of the session fields.
C11_StopStep ==
    /\ (stopped' # stopped /\ next_uuid' = next_uuid) => Cleared'
    /\ (session_id = None /\ next_uuid' = next_uuid) =>
           UNCHANGED <<session_id, session_dir, active_sources, kind, chunk_index,
                       chunk_task, is_recording, active_streams>>

\* C11: at most one session is active at any time and stop clears it: after
\* stop_all, session_id and session_dir are None, active_sources is empty, kind
\* is None and chunk_index is 0, and get_active_session reports no session;
\* stop_all with no active session changes nothing.
C11_StopClearsSession == []C11_OneSession /\ [][C11_StopStep]_vars

\* Every session created so far was started and then stopped by stop_all, and
\* none is active.
C11_Witness ==
    /\ stopped # {}
    /\ next_uuid = Cardinality(stopped)
    /\ Cleared

\* A start_session in which no requested source opened a stream leaves no
\* session, no recording and no scheduler task; a session, a recording or a
\* task appears only in a start in which a stream was opened.  (A start that
\* finds no source of its kind returns before start_session.)
C12_StartStep ==
    /\ (next_uuid' = next_uuid + 1 /\ streams' = streams) =>
           /\ session_id' = None /\ session_dir' = None
           /\ ~is_recording' /\ chunk_task' = None
           /\ tasks'[next_uuid'] = NoTask
    /\ (session_id' # session_id /\ session_id' # None) =>
           /\ next_uuid' = next_uuid + 1 /\ streams' # streams
           /\ session_id' = next_uuid' /\ session_dir' = next_uuid'
    /\ (is_recording' /\ ~is_recording) =>
           session_id' # None /\ session_id' # session_id
    /\ \A t \in SessionIds :
           (tasks[t].pc = "none" /\ tasks'[t].pc # "none") => session_id' = t

\* C12: a start that fails (no source of the requested kind, or none of the
\* requested sources started) leaves no active session: session_id and
\* session_dir stay None, is_recording stays false and no scheduler task runs
\* for the failed start.
C12_FailedStartLeavesNoSession == [][C12_StartStep]_vars

\* The latest start_session failed: its directory exists, it has no task, and
\* no session is active.
C12_Witness ==
    /\ next_uuid > 0
    /\ next_uuid \in DOMAIN dirs
    /\ tasks[next_uuid] = NoTask
    /\ session_id = None /\ session_dir = None /\ ~is_recording

\* The sources whose stream a step opened.
OpenedNow == {s \in SourceIds : streams'[s] = streams[s] + 1}

\* A start_session step: active_streams holds exactly the ids whose stream was
\* opened, each once, and the start succeeds exactly when there is one.
C13_StartStep ==
    next_uuid' = next_uuid + 1 =>
        /\ SeqToSet(active_streams') = OpenedNow
        /\ Len(active_streams') = Cardinality(OpenedNow)
        /\ (session_id' # None) <=> (OpenedNow # {})
        /\ is_recording' <=> (OpenedNow # {})

\* The samples source s has delivered so far.
DeliveredOf(s) == {SampleOf(s, k) : k \in 1..delivered[s]}

\* In a session of two requested sources of which one started, every sample
\* polled, and so every sample of every chunk, is a sample of that source.
C13_ChunksFromStarted ==
    \A t \in SessionIds :
        LET ran == {s \in SeqToSet(tasks[t].src_ids) : streams[s] > 0}
        IN (Len(tasks[t].src_ids) = 2 /\ Cardinality(ran) = 1) =>
              /\ \A s \in ran : SeqToSet(polled[t]) \subseteq DeliveredOf(s)
              /\ \A i \in DOMAIN dirs[t] :
                     SeqToSet(dirs[t][i].data) \subseteq SeqToSet(polled[t])

\* C13: when several sources are requested and some fail to open,
\* start_multi_recording skips the failed ones and succeeds exactly when at
\* least one started; active_streams then holds exactly the ids that started,
\* and the session produces chunks from the sources that did start.
C13_PartialStartGoesOn == []C13_ChunksFromStarted /\ [][C13_StartStep]_vars

\* A mix session in which one of the two sources failed to open has written a
\* chunk and emitted its event.
C13_Witness ==
    \E t \in DOMAIN dirs :
        /\ Len(tasks[t].src_ids) = 2
        /\ Cardinality({s \in SourceIds : streams[s] > 0}) = 1
        /\ \E i \in DOMAIN dirs[t] : dirs[t][i].complete
        /\ events[t] # <<>>

\* C14: start_mix when only a microphone is discovered runs a session with
\* that one source id; the scheduler reads the buffer of the source directly
\* (every polled sample was drained from it), and what reaches the chunks is
\* the source's samples, unchanged and in order.
C14_MixOfOneSourceIsDirect ==
    \A t \in SessionIds :
        (tasks[t].kind = "mix" /\ "SystemAudio" \notin host) =>
            /\ tasks[t].src_ids = <<MicId>>
            /\ t = session_id => active_sources = <<MicId>> /\ kind = "mix"
            /\ polled[t] = drained[MicId]
            /\ polled[t] \o audio_buffers[MicId] = Batch(MicId, 1, delivered[MicId])
            /\ \A k \in 1..Len(handed[t]) :
                   handed[t][k] = Batch(MicId, (k - 1) * target_samples + 1,
                                        target_samples)
            /\ \A i \in DOMAIN dirs[t] :
                   dirs[t][i].complete =>
                       \E k \in 1..Len(handed[t]) : dirs[t][i].data = handed[t][k]

\* A mix session on a host with a microphone only has written a chunk.
C14_Witness ==
    \E t \in DOMAIN dirs :
        /\ tasks[t].kind = "mix" /\ host = {"Microphone"}
        /\ tasks[t].src_ids = <<MicId>>
        /\ \E i \in DOMAIN dirs[t] :
               /\ dirs[t][i].complete
               /\ dirs[t][i].data = Batch(MicId, 1, target_samples)

\* The indices of a set in increasing order.
RECURSIVE Ascending(_)
Ascending(indices) ==
    IF indices = {} THEN <<>>
    ELSE LET least == CHOOSE i \in indices : \A j \in indices : i <= j
         IN <<least>> \o Ascending(indices \ {least})

\* The samples of the chunk files of a directory, in chunk index order.
InIndexOrder(dir) ==
    LET order == Ascending(DOMAIN dir)
    IN Flatten([k \in 1..Len(order) |-> dir[order[k]].data])

\* All chunk files of a directory have one format.
SameFormat(dir) == \A i, j \in DOMAIN dir : dir[i].spec = dir[j].spec

\* C15: finalize on a session whose chunks share one format produces a
\* final.wav whose samples are the chunks' samples concatenated in chunk index
\* order (N1 + N2 + ... samples, chunk 1 ++ chunk 2 ++ ...).
C15_FinalIsConcatenation ==
    LET dir == last_finalize.dir
        entries == last_finalize.entries
    IN (/\ dir # None /\ last_finalize.io = "ok"
        /\ DOMAIN entries # {} /\ SameFormat(entries)) =>
           /\ last_finalize.concat = "ok"
           /\ dir \in DOMAIN final_wav
           /\ final_wav[dir].complete
           /\ final_wav[dir].data = InIndexOrder(entries)
           /\ \A i \in DOMAIN entries : final_wav[dir].spec = entries[i].spec

\* C16: finalize on a session directory with no chunk file reports the
\* "no chunks" condition and creates no final.wav.
C16_EmptySessionIsReported ==
    (last_finalize.dir # None /\ DOMAIN last_finalize.entries = {}) =>
        /\ last_finalize.concat = "no chunks"
        /\ last_finalize.dir \notin DOMAIN final_wav

\* A session stopped before its first chunk was finalized.
C16_Witness ==
    /\ last_finalize.dir # None
    /\ last_finalize.dir \in stopped
    /\ DOMAIN dirs[last_finalize.dir] = {}
    /\ last_finalize.concat = "no chunks"
    /\ DOMAIN final_wav = {}

\* C17: finalize verifies that all chunk files share one sample format
\* (channels, sample rate, bit depth); when two chunks differ it fails with an
\* error and produces no final.wav.
C17_FormatMismatchFails ==
    (last_finalize.dir # None /\ ~SameFormat(last_finalize.entries)) =>
        /\ last_finalize.concat # "ok"
        /\ last_finalize.dir \notin DOMAIN final_wav

\* C18: ac_stop_and_finalize returns an error whenever finalizing the
\* directory of the stopped session fails (no chunks, format mismatch,
\* concatenation failure).
C18_FinalizeFailureIsReturned ==
    (/\ last_finalize.dir # None
     /\ \/ last_finalize.concat # "ok"
        \/ ~SameFormat(last_finalize.entries)) =>
        last_finalize.returned = "err"

\* The chunk files of session t whose write returned success.
Written(t) == {i \in DOMAIN dirs[t] : dirs[t][i].complete}

\* C19: every emitted event's path names a file whose write had returned
\* success, and no event is emitted for a window whose write failed: the
\* events of a session name different finalized files.
C19_EventOnlyAfterWrite ==
    \A t \in DOMAIN dirs :
        /\ \A i \in 1..Len(events[t]) : events[t][i].path \in Written(t)
        /\ \A i, j \in 1..Len(events[t]) :
               events[t][i].path = events[t][j].path => i = j

\* C20: a failed write does not end the scheduler task and costs that window
\* only: a task that has handed a window to the encoder is still in its loop,
\* the failed window is kept nowhere, every window handed over was written,
\* failed or is being written, and every written file has its event.
C20_WriteFailureGoesOn ==
    \A t \in DOMAIN dirs :
        /\ handed[t] # <<>> => tasks[t].pc \in {"sleep", "locked", "write"}
        /\ tasks[t].pc # "write" => tasks[t].chunk = <<>>
        /\ Flatten(handed[t]) \o tasks[t].accumulated = polled[t]
        /\ Len(handed[t]) = Cardinality(Written(t)) + write_failures
                              + (IF tasks[t].pc = "write" THEN 1 ELSE 0)
        /\ \A i \in Written(t) :
               /\ \E k \in 1..Len(handed[t]) : dirs[t][i].data = handed[t][k]
               /\ \E e \in 1..Len(events[t]) : events[t][e].path = i

\* The write of the first window failed; the second window was written and
\* reported while the session was active.
C20_Witness ==
    \E t \in DOMAIN dirs :
        /\ t = session_id
        /\ write_failures > 0
        /\ Len(handed[t]) = 2
        /\ \E i \in Written(t) :
               /\ dirs[t][i].data = handed[t][2]
               /\ \E e \in 1..Len(events[t]) : events[t][e].path = i
        /\ \A i \in Written(t) : dirs[t][i].data # handed[t][1]

\* A step in which the stream of id reports an error: the id is in no active
\* list afterwards, the other ids stay, in order, with their streams, and the
\* recording flag stays as it was while another id remains.
C21_ErrorStep ==
    \A id \in errored' \ errored :
        /\ id \notin SeqToSet(active_streams')
        /\ id \notin SeqToSet(active_devices')
        /\ retain(active_streams', id) = retain(active_streams, id)
        /\ retain(active_devices', id) = retain(active_devices, id)
        /\ retain(active_streams, id) # <<>> => is_recording' = is_recording
        /\ retain(active_devices, id) # <<>> =>
               capture_is_recording' = capture_is_recording
        /\ streams' = streams /\ capture_streams' = capture_streams

\* C21: a runtime stream error on one source marks only that source inactive:
\* its id is removed from the active list, every other active source stays
\* active and keeps delivering, and recording stays on while at least one
\* source remains.
C21_ErrorMarksSourceInactive == [][C21_ErrorStep]_vars

\* C22: source ids are stable across discover_sources calls within one
\* process: an id returned by one call denotes the same physical endpoint in
\* every later call and when it is later used to open a stream, also when the
\* set of enumerable input devices changes between the calls.
C22_IdsAreStable == \A p, q \in named : p[1] = q[1] => p[2] = q[2]

\* C23: each source buffer has exactly one producer at any time: across any
\* sequence of start_multi_recording / stop_recording calls, at most one
\* running capture stream appends to the buffer of a given source id.
C23_OneProducer == \A s \in SourceIds : streams[s] <= 1

\* AudioCapture is stopped: no device is active and the flag is off.
CaptureStopped == active_devices = <<>> /\ ~capture_is_recording

\* While the capture is stopped no stream it opened is running.
C24_StreamsStopped ==
    CaptureStopped => \A d \in DeviceIds : capture_streams[d] = 0

\* A step that starts and ends with the capture stopped does not grow the
\* buffer.
C24_StoppedStep ==
    (CaptureStopped /\ CaptureStopped') => Len(audio_data') <= Len(audio_data)

\* C24: every capture stream follows Stopped -> Opening -> Running -> Stopped:
\* after the session (or capture) is stopped, every stream it opened is
\* stopped and its callback appends no further samples, so the buffers do not
\* grow after stop.
C24_NoGrowthAfterStop == []C24_StreamsStopped /\ [][C24_StoppedStep]_vars

\* The buffer holds the samples delivered last, in order.
C27_HoldsTheLatest ==
    audio_data = [i \in 1..Len(audio_data) |->
                     capture_delivered - Len(audio_data) + i]

\* C27: the single-buffer capture (AudioCapture) caps its buffer at
\* max_samples by dropping the oldest samples: after every data callback the
\* buffer holds at most that many samples and they are the most recently
\* delivered ones in order.
C27_BufferIsCapped ==
    /\ Len(audio_data) <= MaxSamples
    /\ C27_HoldsTheLatest

\* C28: the encoder clamps every input sample to [-1.0, 1.0] before scaling
\* to 16-bit: an input above 1.0 encodes as the same value as 1.0 and an input
\* below -1.0 as the same value as -1.0, the encoded value always lies within
\* the int16 range and never wraps, and encoding is monotonic in the input.
C28_EncoderClamps ==
    encoded.done =>
        LET a == encoded.input[1]
            b == encoded.input[2]
            x == encoded.output[1]
            y == encoded.output[2]
        IN /\ x \in I16Min..I16Max /\ y \in I16Min..I16Max
           /\ (a > EncodeScale /\ b = EncodeScale) => x = y /\ x = I16Max
           /\ (a < -EncodeScale /\ b = -EncodeScale) => x = y /\ x = -I16Max
           /\ a <= b => x <= y
           /\ (a >= 0 => x >= 0) /\ (a <= 0 => x <= 0)
           /\ a = 0 => x = 0

\* A sample below -1.0 and the sample -1.0 were encoded.
C28_Witness ==
    /\ encoded.done
    /\ encoded.input[1] < -EncodeScale /\ encoded.input[2] = -EncodeScale
    /\ encoded.output = <<-I16Max, -I16Max>>

\* C29: the finalizer's lexicographic sort of chunk file names yields chunk
\* index order for every index the scheduler can produce, so chunk i is
\* always concatenated before chunk j whenever i < j.
C29_SortIsIndexOrder ==
    last_finalize.dir # None =>
        sort_entries(DOMAIN last_finalize.entries)
            = Ascending(DOMAIN last_finalize.entries)

\* C26: the scheduler works on a snapshot taken at session start: every chunk
\* file a scheduler task writes lies in the directory of the session that
\* spawned it and every event it emits carries that session's id and kind,
\* also when stop_all or a new start_session runs concurrently and changes
\* the AudioChunker's session fields.
C26_TaskUsesItsSnapshot ==
    \A t \in SessionIds :
        /\ \A i \in 1..Len(events[t]) :
               /\ events[t][i].session_id = t
               /\ events[t][i].kind = tasks[t].kind
               /\ events[t][i].path \in DOMAIN dirs[t]
        /\ t \in DOMAIN dirs =>
               \A i \in DOMAIN dirs[t] :
                   \E k \in 1..Len(handed[t]) : dirs[t][i].data = handed[t][k]

\* A task wrote a chunk and emitted its event after its session had been
\* replaced by another, which is the active one.
C26_Witness ==
    \E e \in late :
        /\ e.op = "emit" /\ e.after_restart
        /\ session_id # None /\ session_id # e.task
        /\ events[e.task] # <<>>
        /\ DOMAIN dirs[e.task] # {}

\* The microphone's callback thread is parked at the audio_buffers lock.
CallbackWaits == mic_callback = "waiting" /\ buffers_lock # Free

\* C25: the hardware callback hands samples to the Shared Buffer Store without
\* blocking: a stream callback never waits for the buffer lock while the
\* scheduler, the mixer, get_status or a starting capture holds it.
C25_CallbackNeverWaits == ~CallbackWaits

\* Task t holds audio_buffers and waits for active_streams, which the start
\* holds while it waits for audio_buffers, and nothing will cancel the task.
Deadlocked(t) ==
    /\ buffers_lock = t
    /\ waits_for_streams(t)
    /\ ~tasks[t].aborted
    /\ streams_lock = Command
    /\ needs_buffers

\* C30: the capture engine cannot deadlock on its locks: for every
\* interleaving of mix_audio_sources, get_status, start_multi_recording and
\* stop_recording, including a scheduler task polling while a new
\* start_session runs, every operation eventually acquires its locks and
\* completes.
C30_NoDeadlock == \A t \in SessionIds : ~Deadlocked(t)

\* Neither side gets out of it: a state with a deadlock is followed by states
\* with that deadlock only.
DeadlockIsFinal == [][\A t \in SessionIds : Deadlocked(t) => Deadlocked(t)']_vars

\* The plugin copy, whose stop_all aborts the task: no deadlock.
C30_NoDeadlockWhenAborted == build = "plugin" => C30_NoDeadlock

\* The second lock acquisition of ac_stop_and_finalize: its stop_all.
FinalizeStops == finalizing.pc = "stop" /\ finalizing'.pc = "post"

C31_StopStep ==
    FinalizeStops => session_dir = None \/ session_dir = finalizing.dir

\* C31: ac_stop_and_finalize finalizes the directory of the very session it
\* stops: no interleaved ac_start_* command can make it stop a newer session
\* while finalizing the older session's directory (leaving the newer session
\* stopped and never finalized).
C31_FinalizesWhatItStops == [][C31_StopStep]_vars

\* C32: in MultiSourceAudioCapture, whenever no start or stop operation is in
\* progress, is_recording is true exactly when active_streams is non-empty,
\* after any sequence of start_multi_recording and stop_recording calls
\* including failed starts.
C32_FlagMatchesStreams ==
    starting.pc = "idle" => (is_recording <=> active_streams # <<>>)

\* A start has failed with no source started, after an earlier recording was
\* stopped: the flag and the list are both clear.
C32_Witness ==
    /\ last_call.op = "start" /\ ~last_call.ok
    /\ last_call.error = "No sources started successfully"
    /\ streams[MicId] > 0
    /\ ~is_recording /\ active_streams = <<>>

\* A start_multi_recording command runs while the engine is recording.
StartsWhileRecording ==
    is_recording /\ last_call'.op = "start" /\ last_call' # last_call

C33_Step ==
    StartsWhileRecording =>
        /\ ~last_call'.ok /\ last_call'.error = "Already recording"
        /\ UNCHANGED <<active_streams, audio_buffers, sources, is_recording,
                       streams, opened>>

\* C33: start_multi_recording called while is_recording is true fails with
\* the already-recording error and changes nothing: active_streams, the
\* buffers, the sources cache and is_recording are all as before, and no new
\* stream is opened.
C33_StartWhileRecordingFails == [][C33_Step]_vars

\* The last command was a start refused for an engine that records.
C33_Witness ==
    /\ last_call.op = "start" /\ ~last_call.ok
    /\ last_call.error = "Already recording"
    /\ is_recording /\ active_streams # <<>>
    /\ audio_buffers = last_call.before

\* C34: in AudioCapture, is_recording is true only while active_devices is
\* non-empty, for every interleaving of start_capture (push device, then set
\* the flag) with the stream error callback (remove device, clear the flag
\* when the list is empty) and with stop_device_capture.
C34_RecordingHasDevices == capture_is_recording => active_devices # <<>>

\* No id is twice in active_devices.
NoDeviceTwice ==
    \A i, j \in 1..Len(active_devices) :
        active_devices[i] = active_devices[j] => i = j

\* A stream is opened only for a device that is not in active_devices.
C35_OpenStep ==
    \A d \in DeviceIds :
        capture_streams'[d] # capture_streams[d] => d \notin SeqToSet(active_devices)

\* C35: AudioCapture.active_devices never contains the same device id twice:
\* start_capture on a device that is already active returns Ok without
\* opening a second stream or changing any state, for any sequence of
\* start_capture, stop_device_capture and stop_capture calls.
C35_NoDeviceTwice == []NoDeviceTwice /\ [][C35_OpenStep]_vars

\* The last call was a start_capture of a device that was active: it returned
\* Ok, and the device is in the list once and has its one stream.
C35_Witness ==
    /\ last_call.op = "start_capture" /\ last_call.ok
    /\ last_call.id \in SeqToSet(last_call.active)
    /\ active_devices = last_call.active
    /\ capture_streams[last_call.id] = 1

\* C36: at the end of every scheduler iteration the accumulation buffer holds
\* fewer than target_samples samples: each poll adds at most target_samples/5
\* samples, so emitting at most one chunk per iteration never leaves a full
\* chunk's worth of audio waiting in the accumulator.
C36_AccumulatorBelowTarget ==
    \A t \in SessionIds :
        tasks[t].pc \in {"sleep", "locked", "write"} =>
            Len(tasks[t].accumulated) < target_samples

\* A task has handed over a chunk and sleeps with what was left of the poll
\* that filled it.
C36_Witness ==
    \E t \in SessionIds :
        /\ tasks[t].pc = "sleep"
        /\ handed[t] # <<>>
        /\ tasks[t].accumulated # <<>>
        /\ Len(tasks[t].accumulated) < poll_max

\* The session's task runs / has emitted the event of its first chunk.
TaskRuns == tasks[1].pc # "none"

ChunkOneEmitted == events[1] # <<>> /\ events[1][1].index = 1

\* C37: progress of chunking: in an active single-source session whose source
\* keeps delivering samples and whose writes succeed, the scheduler eventually
\* emits chunk 1, for every target_samples >= 1 (including values below 5,
\* where the per-poll limit target_samples/5 is computed with integer
\* division).
C37_ChunkOneIsEmitted == TaskRuns ~> ChunkOneEmitted

\* The same for the targets whose fifth is not zero.
RunsWithPolls == TaskRuns /\ poll_max > 0

C37_ChunkOneIsEmittedFromFive == RunsWithPolls ~> ChunkOneEmitted

\* The runs of handle_chunk that took the i-th event of session t.
RunsFor(t, i) ==
    {k \in 1..Len(transcript[t]) : transcript[t][k].chunk = events[t][i].path}

\* C38: each emitted audio:chunk event is handled by the coordinator once:
\* no chunk has more than one line in transcript.jsonl (and live.txt).
C38_HandledOnce ==
    \A t \in SessionIds : \A i \in 1..Len(events[t]) :
        Cardinality(RunsFor(t, i)) <= 1

\* The samples of the session's chunk_<index>.wav files, in the order the
\* finalizer reads them.
PrimarySamples(d) == concat_wavs_in_dir(dirs[d], "ok").out.data

\* C39: final.wav holds the samples of the session's primary chunk files and
\* nothing else: the per-source files of the directory contribute no sample.
C39_OnlyPrimaryChunks ==
    \A d \in DOMAIN final_wav :
        final_wav[d] # <<>> /\ final_wav[d].complete
            => final_wav[d].data = PrimarySamples(d)

\* Without per-source files in the directory, final.wav does hold the
\* primary chunks alone, also after a second finalize.
OnlyPrimaryWithoutSourceFiles ==
    \A d \in DOMAIN final_wav :
        final_wav[d] # <<>> /\ final_wav[d].complete /\ DOMAIN separate[d] = {}
            => final_wav[d].data = PrimarySamples(d)

\* A finalize that completes in a directory whose final.wav is complete
\* leaves the same final.wav: the earlier final.wav was not read.
FinalizeAgainStep ==
    \A d \in DOMAIN final_wav :
        /\ final_wav[d] # <<>> /\ final_wav[d].complete
        /\ last_finalize' # last_finalize /\ last_finalize'.dir = d
        /\ last_finalize'.concat = "ok"
        => final_wav'[d] = final_wav[d]

FinalizeTwiceSame == [][FinalizeAgainStep]_vars

====
